---- MODULE Spec2Model ----
(***************************************************************************)
(* Input Router Daemon (src/input_router/input_router.py).                 *)
(*                                                                         *)
(* The model holds the router's own state (device_mappings, user_sessions, *)
(* running, socket, the receive buffer), the part of the operating system  *)
(* the router reads through user32 / subprocess (the top-level windows in  *)
(* enumeration order, the launched processes and whether they have exited) *)
(* and a record of what the last routed event did (the injection calls it  *)
(* made, in order).                                                        *)
(*                                                                         *)
(* Specifications:                                                         *)
(*   Spec        route_event called with any decoded event, between any    *)
(*               control-plane operations and any changes of the windows   *)
(*               and processes;                                            *)
(*   SpecStop    the same, with stop() called at any time;                 *)
(*   SpecLoop    run() / event_loop() reading chunks of the upstream       *)
(*               stream and routing the lines they complete;               *)
(*   SpecRun     run() reading whole lines, under fair scheduling of the   *)
(*               main thread;                                              *)
(*   SpecDaemon  run() while control-plane requests are served;            *)
(*   SpecLock    route_event and the control-plane handlers as two         *)
(*               threads, one access of the shared tables at a time;       *)
(*   SpecCuts    event_loop() given one stream cut into chunks in every    *)
(*               way;                                                      *)
(*   SpecConfig  the construction of the router from any configuration     *)
(*               file, and the operations that save the configuration;     *)
(*   SpecButtons inject_mouse_button applied to every button bitmask.      *)
(***************************************************************************)
EXTENDS Integers, Sequences, FiniteSets, TLC

\* ------------------------------------------------------------------ bounds

\* Window handles the operating system hands out are 1..MaxHwnd.
MaxHwnd == 2
\* At most MaxPid processes are launched in a run (pids 1..MaxPid).
MaxPid == 1
\* Symbols received on one connection, and symbols per recv() chunk.
MaxStream == 4
MaxChunk == 2
\* Connections opened in a run of the daemon.
MaxConn == 2
\* Button bitmasks 0..MaxButtons are tried on inject_mouse_button.
MaxButtons == 255

\* --------------------------------------------------------- program constants

KEYEVENTF_KEYUP == 2
MOUSEEVENTF_MOVE == 1
MOUSEEVENTF_LEFTDOWN == 2
MOUSEEVENTF_LEFTUP == 4
MOUSEEVENTF_RIGHTDOWN == 8
MOUSEEVENTF_RIGHTUP == 16
MOUSEEVENTF_MIDDLEDOWN == 32
MOUSEEVENTF_MIDDLEUP == 64

RI_MOUSE_LEFT_BUTTON_DOWN == 1
RI_MOUSE_LEFT_BUTTON_UP == 2
RI_MOUSE_RIGHT_BUTTON_DOWN == 4
RI_MOUSE_RIGHT_BUTTON_UP == 8
RI_MOUSE_MIDDLE_BUTTON_DOWN == 16
RI_MOUSE_MIDDLE_BUTTON_UP == 32

WM_KEYDOWN == 256
WM_KEYUP == 257
WM_CHAR == 258

\* The default of settings.reconnect_delay_s, in seconds.
reconnect_delay_s == 5

\* Python's None for UserSession.hwnd and UserSession.process, and the
\* default of UserSession.pid.  `not session.hwnd` is true of None and of 0.
NoHwnd == 0
NoProcess == 0
NoPid == 0

\* Owner of a window that belongs to no process the router launched.
ExternalPid == 0

\* ------------------------------------------------------------------ domains

DeviceIds == {"dev-1"}
UserIds == {"alice", "bob"}
Hwnds == 1..MaxHwnd
Pids == 1..MaxPid

\* dict.get(device_id) of a missing key: None, which `not user_id` rejects
\* like the empty string.
NoUser == ""

\* Virtual keys of the keyboard events tried: VK_RETURN (has a character)
\* and VK_SHIFT (has none).
VKeys == {13, 16}

\* <<dx, dy, buttons>> of the mouse events tried.  The button bitmasks: none,
\* left button down (1), and a bit that is none of the six known flags (64).
MouseInputs ==
    {<<0, 0, 0>>, <<5, -3, 0>>, <<0, -3, 0>>, <<0, 0, 1>>, <<0, 0, 64>>, <<5, -3, 1>>}

KeyboardEvents ==
    {[device_id |-> d, type |-> "keyboard", vkey |-> k, dx |-> 0, dy |-> 0, buttons |-> 0] :
        d \in DeviceIds, k \in VKeys}

MouseEvents ==
    {[device_id |-> d, type |-> "mouse", vkey |-> 0, dx |-> m[1], dy |-> m[2], buttons |-> m[3]] :
        d \in DeviceIds, m \in MouseInputs}

\* An event whose type is neither 'keyboard' nor 'mouse'.
OtherEvents ==
    {[device_id |-> d, type |-> "wheel", vkey |-> 0, dx |-> 0, dy |-> 0, buttons |-> 0] :
        d \in DeviceIds}

Events == KeyboardEvents \cup MouseEvents \cup OtherEvents

VARIABLES
    device_mappings,  \* InputRouter.device_mappings: device_id -> user_id
    user_sessions,    \* InputRouter.user_sessions: user_id -> UserSession
    procs,            \* procs[p]: "running" | "exited", for every launched pid p
    windows,          \* the top-level windows, in EnumWindows order: <<[hwnd, pid]>>
    last,             \* what the last call of route_event did
    running,          \* InputRouter.running
    socket,           \* InputRouter.socket: "None" | "open"
    pc,               \* where run() is ("new": the router is not constructed yet)
    buffer,           \* event_loop's local buffer
    stream,           \* the symbols received on the current connection
    routed,           \* the events handed to route_event on the current connection
    conns,            \* connections opened so far
    btn,              \* inject_mouse_button's argument and the flags it injected
    lock,             \* InputRouter.lock: the thread that holds it, or NoThread
    http,             \* the control-plane (HTTP server) thread: its request and position
    route,            \* the receive-loop thread inside route_event: position and locals
    reconnect_delay,  \* run()'s local reconnect_delay
    slept,            \* the duration of run()'s last time.sleep
    discarded,        \* the last event_loop ended with an incomplete line in its buffer
    config,           \* InputRouter.config: the configuration dictionary
    config_file,      \* what the file at config_path holds
    disk,             \* "ok" | "failing": whether the configuration file can be written
    upstream,         \* data the upstream service has sent and recv has not returned yet
    stop_requested    \* stop() has been called since the router was constructed

routerVars == <<device_mappings, user_sessions>>
osVars == <<procs, windows>>
loopVars == <<running, socket, pc, buffer, stream, routed, conns>>
lockVars == <<lock, http, route>>
waitVars == <<reconnect_delay, slept, discarded>>
configVars == <<config, config_file, disk>>
vars == <<device_mappings, user_sessions, procs, windows, last,
          running, socket, pc, buffer, stream, routed, conns, btn,
          lock, http, route, reconnect_delay, slept, discarded,
          config, config_file, disk, upstream, stop_requested>>

\* ------------------------------------------------------------ arithmetic

RECURSIVE BitAnd(_, _)
\* Python's a & b on non-negative integers.
BitAnd(a, b) ==
    IF a = 0 \/ b = 0 THEN 0
    ELSE (a % 2) * (b % 2) + 2 * BitAnd(a \div 2, b \div 2)

RECURSIVE BitOr(_, _)
\* Python's a | b on non-negative integers.
BitOr(a, b) ==
    IF a = 0 THEN b
    ELSE IF b = 0 THEN a
    ELSE (IF a % 2 = 1 \/ b % 2 = 1 THEN 1 ELSE 0) + 2 * BitOr(a \div 2, b \div 2)

\* ------------------------------------------------- the operating system

\* user32.IsWindow(hwnd): hwnd is the handle of an existing window.
IsWindow(wins, hwnd) == \E i \in 1..Len(wins) : wins[i].hwnd = hwnd

\* subprocess.Popen.poll() is not None: the launched process has exited.
HasExited(ps, process) == ps[process] = "exited"

\* The handles of the windows of process pid, in enumeration order.
WindowsOfPid(wins, pid) ==
    SelectSeq(wins, LAMBDA w : w.pid = pid)

\* InputRouter._find_window_by_pid: the first visible window, in EnumWindows
\* order, whose process is pid; None when there is none.
FindWindowByPid(wins, pid) ==
    LET result == WindowsOfPid(wins, pid)
    IN  IF result # <<>> THEN result[1].hwnd ELSE NoHwnd

\* The window at the top of the enumeration (Z) order is the foreground one.
Foreground(wins) == IF wins = <<>> THEN NoHwnd ELSE wins[1].hwnd

\* user32.SetForegroundWindow(hwnd), as InputRouter.set_foreground_window
\* calls it: an existing window is brought to the top; nothing happens for a
\* handle that is no window.
SetForegroundWindow(wins, hwnd) ==
    IF ~IsWindow(wins, hwnd) THEN wins
    ELSE SelectSeq(wins, LAMBDA w : w.hwnd = hwnd) \o
         SelectSeq(wins, LAMBDA w : w.hwnd # hwnd)

\* user32.MapVirtualKeyW(vkey, 0): virtual key to scan code.
ScanCodeOf(vkey) ==
    CASE vkey = 13 -> 28
      [] vkey = 16 -> 42
      [] vkey = 65 -> 30
      [] OTHER -> 0

\* user32.MapVirtualKeyW(vkey, 2): virtual key to character, 0 when the key
\* has none.
CharCodeOf(vkey) ==
    CASE vkey = 13 -> 13
      [] vkey = 65 -> 65
      [] OTHER -> 0

\* ---------------------------------------------------------- injection calls

\* The bit fields of a key message's lParam: repeat count (bits 0-15), scan
\* code (16-23), previous key state (30), transition state (31).
LParam(repeat, scan, prev, trans) ==
    [repeat |-> repeat, scan |-> scan, prev |-> prev, trans |-> trans]

NoLParam == LParam(0, 0, 0, 0)

\* One call of user32.PostMessageW(hwnd, msg, wParam, lParam).
PostMessageW(hwnd, msg, wParam, lParam) ==
    [api |-> "PostMessageW", hwnd |-> hwnd, msg |-> msg, wParam |-> wParam,
     lParam |-> lParam, dx |-> 0, dy |-> 0, dwFlags |-> 0]

\* One call of user32.SendInput with a MOUSEINPUT: system-wide, no window.
SendInputMouse(dx, dy, dwFlags) ==
    [api |-> "SendInput", hwnd |-> NoHwnd, msg |-> 0, wParam |-> 0,
     lParam |-> NoLParam, dx |-> dx, dy |-> dy, dwFlags |-> dwFlags]

\* One call of user32.SendInput with a KEYBDINPUT (InputRouter.inject_keyboard,
\* the legacy path that needs focus).
SendInputKeyboard(vkey, dwFlags) ==
    [api |-> "SendInputKeyboard", hwnd |-> NoHwnd, msg |-> 0, wParam |-> vkey,
     lParam |-> NoLParam, dx |-> 0, dy |-> 0, dwFlags |-> dwFlags]

\* One call of InputRouter.set_foreground_window(hwnd).
SetForegroundCall(hwnd) ==
    [api |-> "SetForegroundWindow", hwnd |-> hwnd, msg |-> 0, wParam |-> 0,
     lParam |-> NoLParam, dx |-> 0, dy |-> 0, dwFlags |-> 0]

\* Variant of inject_keyboard_to_window: the legacy path, which brings the
\* window to the foreground and injects the key with SendInput.
inject_keyboard_with_focus(hwnd, vkey) ==
    <<SetForegroundCall(hwnd), SendInputKeyboard(vkey, 0),
      SendInputKeyboard(vkey, KEYEVENTF_KEYUP)>>

\* Variant of inject_keyboard_to_window: the key-up is posted before the
\* character message.
inject_keyboard_up_first(hwnd, vkey) ==
    LET scan_code == ScanCodeOf(vkey)
        lparam_down == LParam(1, scan_code, 0, 0)
        lparam_up == LParam(1, scan_code, 1, 1)
        char_code == CharCodeOf(vkey)
    IN  <<PostMessageW(hwnd, WM_KEYDOWN, vkey, lparam_down),
          PostMessageW(hwnd, WM_KEYUP, vkey, lparam_up)>> \o
        (IF char_code > 0
            THEN <<PostMessageW(hwnd, WM_CHAR, char_code, lparam_down)>>
            ELSE <<>>)

\* InputRouter.inject_keyboard_to_window: key down, a character message when
\* the key maps to a character, key up, all posted to hwnd.
inject_keyboard_to_window(hwnd, vkey) ==
    LET scan_code == ScanCodeOf(vkey)
        lparam_down == LParam(1, scan_code, 0, 0)
        lparam_up == LParam(1, scan_code, 1, 1)
        char_code == CharCodeOf(vkey)
    IN  <<PostMessageW(hwnd, WM_KEYDOWN, vkey, lparam_down)>> \o
        (IF char_code > 0
            THEN <<PostMessageW(hwnd, WM_CHAR, char_code, lparam_down)>>
            ELSE <<>>) \o
        <<PostMessageW(hwnd, WM_KEYUP, vkey, lparam_up)>>

\* InputRouter.inject_mouse_move(dx, dy), relative.
inject_mouse_move(dx, dy) == <<SendInputMouse(dx, dy, MOUSEEVENTF_MOVE)>>

\* Variant of ButtonFlags: the right button's down and up flags are swapped.
ButtonFlagsSwapped(buttons) ==
    (IF BitAnd(buttons, RI_MOUSE_LEFT_BUTTON_DOWN) # 0 THEN MOUSEEVENTF_LEFTDOWN ELSE 0) +
    (IF BitAnd(buttons, RI_MOUSE_LEFT_BUTTON_UP) # 0 THEN MOUSEEVENTF_LEFTUP ELSE 0) +
    (IF BitAnd(buttons, RI_MOUSE_RIGHT_BUTTON_DOWN) # 0 THEN MOUSEEVENTF_RIGHTUP ELSE 0) +
    (IF BitAnd(buttons, RI_MOUSE_RIGHT_BUTTON_UP) # 0 THEN MOUSEEVENTF_RIGHTDOWN ELSE 0) +
    (IF BitAnd(buttons, RI_MOUSE_MIDDLE_BUTTON_DOWN) # 0 THEN MOUSEEVENTF_MIDDLEDOWN ELSE 0) +
    (IF BitAnd(buttons, RI_MOUSE_MIDDLE_BUTTON_UP) # 0 THEN MOUSEEVENTF_MIDDLEUP ELSE 0)

\* The dwFlags InputRouter.inject_mouse_button builds from the raw buttons.
ButtonFlags(buttons) ==
    LET f0 == 0
        f1 == IF BitAnd(buttons, RI_MOUSE_LEFT_BUTTON_DOWN) # 0
                 THEN BitOr(f0, MOUSEEVENTF_LEFTDOWN) ELSE f0
        f2 == IF BitAnd(buttons, RI_MOUSE_LEFT_BUTTON_UP) # 0
                 THEN BitOr(f1, MOUSEEVENTF_LEFTUP) ELSE f1
        f3 == IF BitAnd(buttons, RI_MOUSE_RIGHT_BUTTON_DOWN) # 0
                 THEN BitOr(f2, MOUSEEVENTF_RIGHTDOWN) ELSE f2
        f4 == IF BitAnd(buttons, RI_MOUSE_RIGHT_BUTTON_UP) # 0
                 THEN BitOr(f3, MOUSEEVENTF_RIGHTUP) ELSE f3
        f5 == IF BitAnd(buttons, RI_MOUSE_MIDDLE_BUTTON_DOWN) # 0
                 THEN BitOr(f4, MOUSEEVENTF_MIDDLEDOWN) ELSE f4
        f6 == IF BitAnd(buttons, RI_MOUSE_MIDDLE_BUTTON_UP) # 0
                 THEN BitOr(f5, MOUSEEVENTF_MIDDLEUP) ELSE f5
    IN  f6

\* InputRouter.inject_mouse_button: nothing when no known flag is set, else
\* one SendInput carrying all the translated flags.
inject_mouse_button(buttons) ==
    LET flags == ButtonFlags(buttons)
    IN  IF flags = 0 THEN <<>> ELSE <<SendInputMouse(0, 0, flags)>>

\* ------------------------------------------------------------------ sessions

\* Variant of UserSession: the pid of the process is not recorded.
UserSessionNoPid(process, hwnd, pid) == [process |-> process, hwnd |-> hwnd, pid |-> NoPid]

\* UserSession(user_id, process, hwnd, pid); project_dir and editor play no
\* part in routing.
UserSession(process, hwnd, pid) == [process |-> process, hwnd |-> hwnd, pid |-> pid]

\* Variant of refresh_window_handle: when the lookup by pid finds nothing the
\* foreground window is taken.
refresh_or_foreground(session, wins, ps) ==
    LET hwnd == IF session.process # NoProcess /\ ~HasExited(ps, session.process)
                   THEN FindWindowByPid(wins, session.pid) ELSE NoHwnd
        pick == IF hwnd # NoHwnd THEN hwnd ELSE Foreground(wins)
    IN  IF pick # NoHwnd
           THEN [ok |-> TRUE, session |-> [session EXCEPT !.hwnd = pick]]
           ELSE [ok |-> FALSE, session |-> session]

\* InputRouter._refresh_window_handle: for a session whose own process is
\* still running, look its window up by pid and record it when found.
\* Returns the bool and the session as it is afterwards.
refresh_window_handle(session, wins, ps) ==
    IF session.process # NoProcess /\ ~HasExited(ps, session.process)
    THEN LET hwnd == FindWindowByPid(wins, session.pid)
         IN  IF hwnd # NoHwnd
                THEN [ok |-> TRUE, session |-> [session EXCEPT !.hwnd = hwnd]]
                ELSE [ok |-> FALSE, session |-> session]
    ELSE [ok |-> FALSE, session |-> session]

\* ------------------------------------------------------------------- routing

\* Variant of DictSet: a key that is present keeps its value.
DictSetIfAbsent(d, k, v) == [x \in DOMAIN d \cup {k} |-> IF x \in DOMAIN d THEN d[x] ELSE v]

\* Python dicts: an empty dict, d[k] = v, del d[k].
EmptyDict == [k \in {} |-> NoUser]
DictSet(d, k, v) == [x \in DOMAIN d \cup {k} |-> IF x = k THEN v ELSE d[x]]
DictDel(d, k) == [x \in DOMAIN d \ {k} |-> d[x]]

\* Variant of LookupUser: a device that is not mapped goes to the first user.
LookupUserOrFirst(mappings, device_id) ==
    IF device_id \in DOMAIN mappings THEN mappings[device_id] ELSE "alice"

\* self.device_mappings.get(device_id)
LookupUser(mappings, device_id) ==
    IF device_id \in DOMAIN mappings THEN mappings[device_id] ELSE NoUser

\* Variant of ProcessTerminated: the process is looked at only while the
\* session has a window handle.
ProcessTerminatedWithHandle(session, ps) ==
    session.process # NoProcess /\ session.hwnd # NoHwnd /\ HasExited(ps, session.process)

\* Variant of ProcessTerminated: a session that still has a handle is not
\* looked at.
ProcessTerminatedNoHandle(session, ps) ==
    session.process # NoProcess /\ HasExited(ps, session.process) /\ session.hwnd = NoHwnd

\* `session.process and session.process.poll() is not None`
ProcessTerminated(session, ps) ==
    session.process # NoProcess /\ HasExited(ps, session.process)

\* What one call of route_event did: the registry afterwards, how the event
\* ended, the injection calls made (in order) and the number of calls of
\* _refresh_window_handle.
RouteResult(sessions, outcome, calls, refreshes) ==
    [sessions |-> sessions, outcome |-> outcome, calls |-> calls,
     refreshes |-> refreshes]

\* Variant of Dispatch: an event that is no mouse event is taken for a
\* keyboard event.
DispatchOthersAsKeys(event, hwnd) ==
    IF event.type = "mouse"
    THEN [outcome |-> "Delivered",
          calls |-> (IF event.dx # 0 \/ event.dy # 0
                        THEN inject_mouse_move(event.dx, event.dy) ELSE <<>>) \o
                    (IF event.buttons # 0
                        THEN inject_mouse_button(event.buttons) ELSE <<>>)]
    ELSE [outcome |-> "Delivered",
          calls |-> inject_keyboard_to_window(hwnd, event.vkey)]

\* Variant of Dispatch: motion is injected only when dx and dy are both not 0.
DispatchMotionBoth(event, hwnd) ==
    IF event.type = "keyboard"
    THEN [outcome |-> "Delivered",
          calls |-> inject_keyboard_to_window(hwnd, event.vkey)]
    ELSE IF event.type = "mouse"
    THEN [outcome |-> "Delivered",
          calls |-> (IF event.dx # 0 /\ event.dy # 0
                        THEN inject_mouse_move(event.dx, event.dy) ELSE <<>>) \o
                    (IF event.buttons # 0
                        THEN inject_mouse_button(event.buttons) ELSE <<>>)]
    ELSE [outcome |-> "DiscardedUnknownType", calls |-> <<>>]

\* route_event from `# Inject the input` on: the event's kind decides the
\* injection path; an event of another kind injects nothing.
Dispatch(event, hwnd) ==
    IF event.type = "keyboard"
    THEN [outcome |-> "Delivered",
          calls |-> inject_keyboard_to_window(hwnd, event.vkey)]
    ELSE IF event.type = "mouse"
    THEN [outcome |-> "Delivered",
          calls |-> (IF event.dx # 0 \/ event.dy # 0
                        THEN inject_mouse_move(event.dx, event.dy) ELSE <<>>) \o
                    (IF event.buttons # 0
                        THEN inject_mouse_button(event.buttons) ELSE <<>>)]
    ELSE [outcome |-> "DiscardedUnknownType", calls |-> <<>>]

\* Variant of ResolveAndDispatch: the window is looked up by pid for every
\* event, whether the recorded handle is still a window or not.
ResolveAndDispatchEager(event, user_id, session, sessions, wins, ps) ==
    LET r == refresh_window_handle(session, wins, ps)
        after == [sessions EXCEPT ![user_id] = r.session]
    IN  IF r.session.hwnd = NoHwnd
        THEN RouteResult(after, "DroppedWindowUnresolvable", <<>>, 1)
        ELSE LET d == Dispatch(event, r.session.hwnd)
             IN  RouteResult(after, d.outcome, d.calls, 1)

\* route_event from `# Refresh window handle if needed` on, for a session
\* whose process has not been found terminated.
ResolveAndDispatch(event, user_id, session, sessions, wins, ps) ==
    LET absent == session.hwnd = NoHwnd
        r1 == IF absent THEN refresh_window_handle(session, wins, ps)
              ELSE [ok |-> TRUE, session |-> session]
        n1 == IF absent THEN 1 ELSE 0
    IN  IF ~r1.ok
        THEN RouteResult(sessions, "DroppedWindowUnresolvable", <<>>, n1)
        ELSE LET stale == ~IsWindow(wins, r1.session.hwnd)
                 r2 == IF stale THEN refresh_window_handle(r1.session, wins, ps)
                       ELSE [ok |-> TRUE, session |-> r1.session]
                 n2 == IF stale THEN n1 + 1 ELSE n1
                 after == [sessions EXCEPT ![user_id] = r2.session]
             IN  IF stale /\ r2.session.hwnd = NoHwnd
                 THEN RouteResult(after, "DroppedWindowUnresolvable", <<>>, n2)
                 ELSE LET d == Dispatch(event, r2.session.hwnd)
                      IN  RouteResult(after, d.outcome, d.calls, n2)

\* Variant of route_event: the session of a process that has exited is
\* removed from the registry.
route_event_reaping(event, mappings, sessions, wins, ps) ==
    LET device_id == event.device_id
        user_id == LookupUser(mappings, device_id)
    IN  IF user_id = NoUser
        THEN RouteResult(sessions, "DroppedUnmappedDevice", <<>>, 0)
        ELSE IF user_id \notin DOMAIN sessions
        THEN RouteResult(sessions, "DroppedNoSession", <<>>, 0)
        ELSE LET session == sessions[user_id]
             IN  IF ProcessTerminated(session, ps)
                 THEN RouteResult(DictDel(sessions, user_id),
                                  "DroppedProcessDead", <<>>, 0)
                 ELSE ResolveAndDispatch(event, user_id, session, sessions, wins, ps)

\* Variant of route_event: an event for a user with no session goes to the
\* session of another user, when there is one.
route_event_any_session(event, mappings, sessions, wins, ps) ==
    LET device_id == event.device_id
        user_id == LookupUser(mappings, device_id)
    IN  IF user_id = NoUser
        THEN RouteResult(sessions, "DroppedUnmappedDevice", <<>>, 0)
        ELSE IF DOMAIN sessions = {}
        THEN RouteResult(sessions, "DroppedNoSession", <<>>, 0)
        ELSE LET target == IF user_id \in DOMAIN sessions THEN user_id
                           ELSE CHOOSE v \in DOMAIN sessions : TRUE
                 session == sessions[target]
             IN  IF ProcessTerminated(session, ps)
                 THEN RouteResult([sessions EXCEPT ![target].hwnd = NoHwnd],
                                  "DroppedProcessDead", <<>>, 0)
                 ELSE ResolveAndDispatch(event, target, session, sessions, wins, ps)

\* InputRouter.route_event.
route_event(event, mappings, sessions, wins, ps) ==
    LET device_id == event.device_id
        user_id == LookupUser(mappings, device_id)
    IN  IF user_id = NoUser
        THEN RouteResult(sessions, "DroppedUnmappedDevice", <<>>, 0)
        ELSE IF user_id \notin DOMAIN sessions
        THEN RouteResult(sessions, "DroppedNoSession", <<>>, 0)
        ELSE LET session == sessions[user_id]
             IN  IF ProcessTerminated(session, ps)
                 THEN RouteResult([sessions EXCEPT ![user_id].hwnd = NoHwnd],
                                  "DroppedProcessDead", <<>>, 0)
                 ELSE ResolveAndDispatch(event, user_id, session, sessions, wins, ps)

RECURSIVE ApplyCalls(_, _)
\* The effect of a sequence of injection calls on the windows: only
\* SetForegroundWindow changes which window is on top.
ApplyCalls(wins, calls) ==
    IF calls = <<>> THEN wins
    ELSE ApplyCalls(IF calls[1].api = "SetForegroundWindow"
                       THEN SetForegroundWindow(wins, calls[1].hwnd) ELSE wins,
                    Tail(calls))

\* ---------------------------------------------------- the record of a route

NoEvent == [device_id |-> "", type |-> "", vkey |-> 0, dx |-> 0, dy |-> 0, buttons |-> 0]
NoSessionRec == UserSession(NoProcess, NoHwnd, NoPid)

\* `last` when the last step was not a call of route_event.
NoRoute ==
    [event |-> NoEvent, user |-> NoUser, outcome |-> "None", calls |-> <<>>,
     refreshes |-> 0, mapped |-> FALSE, had |-> FALSE,
     before |-> [u \in {} |-> NoSessionRec], live |-> FALSE, dead |-> FALSE,
     found |-> NoHwnd, fg |-> NoHwnd]

\* `last` for a call of route_event(event) that returned r: the result with
\* what held when the call began: whether the device was a key of the
\* mapping table, the user it mapped to, the session registry, whether the
\* user's session had a handle of an existing window, whether its process had
\* exited, what a lookup by its pid would find, the foreground window.
Routed(event, r, mappings, sessions, wins, ps) ==
    LET u == LookupUser(mappings, event.device_id)
        had == u # NoUser /\ u \in DOMAIN sessions
        pre == IF had THEN sessions[u] ELSE NoSessionRec
    IN  [event |-> event, user |-> u, outcome |-> r.outcome, calls |-> r.calls,
         refreshes |-> r.refreshes,
         mapped |-> event.device_id \in DOMAIN mappings,
         had |-> had, before |-> sessions,
         live |-> had /\ IsWindow(wins, pre.hwnd),
         dead |-> had /\ pre.process # NoProcess /\ ps[pre.process] = "exited",
         found |-> IF had /\ pre.process # NoProcess
                      THEN FindWindowByPid(wins, pre.pid) ELSE NoHwnd,
         fg |-> Foreground(wins)]

\* ------------------------------------------------------------------ threads

\* No thread holds the lock.
NoThread == ""

\* The control-plane thread between two requests.
HttpIdle == [op |-> "idle", pc |-> "idle", device_id |-> "", user_id |-> NoUser, hwnd |-> NoHwnd]

\* The receive-loop thread outside route_event.
RouteIdle ==
    [pc |-> "idle", event |-> NoEvent, user_id |-> NoUser, after |-> HttpIdle,
     session |-> NoSessionRec, calls |-> <<>>]

\* ------------------------------------------------------------ configuration

\* Variant of load_config: a file that cannot be loaded leaves the
\* configuration as __init__ made it, empty.
load_config_no_fallback(file) ==
    IF file.exists /\ file.json = "object"
    THEN [config |-> file.value,
          device_mappings |-> IF "device_mappings" \in DOMAIN file.value
                              THEN file.value.device_mappings ELSE EmptyDict,
          saves |-> FALSE]
    ELSE [config |-> EmptyDict, device_mappings |-> EmptyDict, saves |-> FALSE]

\* Variant of save_config: the configuration keeps the table it had.
save_config_unsynced(cfg, mappings) == cfg

\* The configuration of _create_default_config, before its _save_config.
\* UserIds stand for its users user_1 and user_2.
DefaultConfig ==
    [raw_input_service |-> [host |-> "127.0.0.1", port |-> 9999],
     device_mappings |-> EmptyDict,
     users |-> UserIds,
     settings |-> [focus_delay_ms |-> 50, reconnect_delay_s |-> reconnect_delay_s]]

\* What the file at config_path can hold: nothing (no file), a JSON object,
\* a JSON value that is no object, or text json.load rejects.
NoFile == [exists |-> FALSE, json |-> "none", value |-> EmptyDict]
FileOf(cfg) == [exists |-> TRUE, json |-> "object", value |-> cfg]
ArrayFile == [exists |-> TRUE, json |-> "array", value |-> EmptyDict]
InvalidFile == [exists |-> TRUE, json |-> "invalid", value |-> EmptyDict]

\* dict.update(other)
DictUpdate(d, other) ==
    [k \in DOMAIN d \cup DOMAIN other |-> IF k \in DOMAIN other THEN other[k] ELSE d[k]]

\* _save_config, in memory: the configuration takes the live table.
save_config(cfg, mappings) == DictSet(cfg, "device_mappings", mappings)

\* _save_config, on disk: the files open(..., 'w') and json.dump can leave.
\* A failing disk leaves the old file (open raised) or a truncated one.
json_dump(cfg, file, dsk) ==
    IF dsk = "ok" THEN {FileOf(cfg)} ELSE {file, InvalidFile}

\* _save_config as a step: the exception of a failed write is only logged.
SaveConfig(cfg, mappings) ==
    /\ config' = save_config(cfg, mappings)
    /\ config_file' \in json_dump(config', config_file, disk)
    /\ disk' = disk

\* _load_config on a fresh router: what it leaves in config and
\* device_mappings, and whether it went through _create_default_config
\* (which saves).  A missing file, a file that does not parse and a JSON value
\* without .get all end in the default configuration.
load_config(file) ==
    IF file.exists /\ file.json = "object"
    THEN [config |-> file.value,
          device_mappings |-> IF "device_mappings" \in DOMAIN file.value
                              THEN file.value.device_mappings ELSE EmptyDict,
          saves |-> FALSE]
    ELSE [config |-> DefaultConfig, device_mappings |-> EmptyDict, saves |-> TRUE]

\* config.get('settings', {}).get('reconnect_delay_s', 5)
ReconnectDelayOf(cfg) ==
    IF "settings" \in DOMAIN cfg /\ "reconnect_delay_s" \in DOMAIN cfg.settings
    THEN cfg.settings.reconnect_delay_s
    ELSE reconnect_delay_s

\* config.get('users', {})
UsersOf(cfg) == IF "users" \in DOMAIN cfg THEN cfg.users ELSE {}

\* The router on a disk that works, with the default configuration and the
\* live table saved in it.
Constructed ==
    /\ config = save_config(DefaultConfig, device_mappings)
    /\ config_file = FileOf(config)
    /\ disk = "ok"

\* -------------------------------------------------------------------- state

Init ==
    /\ device_mappings = EmptyDict
    /\ user_sessions = [u \in {} |-> NoSessionRec]
    /\ procs = <<>>
    /\ windows = <<>>
    /\ last = NoRoute
    /\ running = FALSE
    /\ socket = "None"
    /\ pc = "init"
    /\ buffer = <<>>
    /\ stream = <<>>
    /\ routed = <<>>
    /\ conns = 0
    /\ lock = NoThread /\ http = HttpIdle /\ route = RouteIdle
    /\ reconnect_delay = 0 /\ slept = 0 /\ discarded = FALSE
    /\ Constructed
    /\ upstream = <<>>
    /\ stop_requested = FALSE
    /\ btn = [buttons |-> 0, calls |-> <<>>, done |-> FALSE]

\* Handles no existing window has.
FreeHwnds == {h \in Hwnds : ~IsWindow(windows, h)}

\* A call of route_event is looked at (last) right after it returns: every
\* other step is taken with no route on record and leaves none.
Unobserved == last = NoRoute /\ last' = NoRoute

\* ------------------------------------------------------ the control plane

\* InputRouter.add_device_mapping(device_id, user_id)
AddDeviceMapping(d, u) ==
    /\ pc # "new"
    /\ device_mappings' = DictSet(device_mappings, d, u)
    /\ SaveConfig(config, device_mappings')
    /\ Unobserved
    /\ UNCHANGED <<user_sessions, osVars, loopVars, btn, lockVars, waitVars, upstream, stop_requested>>

\* InputRouter.remove_device_mapping(device_id)
RemoveDeviceMapping(d) ==
    /\ pc # "new"
    /\ IF d \in DOMAIN device_mappings
       THEN /\ device_mappings' = DictDel(device_mappings, d)
            /\ SaveConfig(config, device_mappings')
       ELSE UNCHANGED <<device_mappings, configVars>>
    /\ Unobserved
    /\ UNCHANGED <<user_sessions, osVars, loopVars, btn, lockVars, waitVars, upstream, stop_requested>>

\* InputRouter.launch_editor(user_id).  For a user the configuration does not
\* have nothing changes; Popen either raises (nothing changes) or starts
\* process Len(procs) + 1; during the two
\* seconds the call then sleeps the process's window h may appear (on top);
\* the session records what the lookup by pid finds and replaces the user's
\* earlier session.
LaunchEditor(u) ==
    /\ Len(procs) < MaxPid
    /\ \E started \in BOOLEAN, h \in FreeHwnds \cup {NoHwnd} :
          IF ~started \/ u \notin UsersOf(config)
          THEN /\ h = NoHwnd
               /\ UNCHANGED <<user_sessions, procs, windows>>
          ELSE LET pid == Len(procs) + 1
                   wins == IF h = NoHwnd THEN windows
                           ELSE <<[hwnd |-> h, pid |-> pid]>> \o windows
               IN  /\ procs' = Append(procs, "running")
                   /\ windows' = wins
                   /\ user_sessions' =
                         DictSet(user_sessions, u,
                                 UserSession(pid, FindWindowByPid(wins, pid), pid))
    /\ Unobserved
    /\ UNCHANGED <<device_mappings, loopVars, btn, lockVars, waitVars, configVars, upstream, stop_requested>>

\* InputRouter.attach_to_window(user_id, hwnd): refused for a handle that is
\* no window, else the user's session becomes the attached one.
AttachToWindow(u, hwnd) ==
    /\ user_sessions' = IF ~IsWindow(windows, hwnd) THEN user_sessions
                        ELSE DictSet(user_sessions, u,
                                     UserSession(NoProcess, hwnd, NoPid))
    /\ Unobserved
    /\ UNCHANGED <<device_mappings, osVars, loopVars, btn, lockVars, waitVars, configVars, upstream, stop_requested>>

\* The windows left when process pid is gone.
WithoutPid(wins, pid) == SelectSeq(wins, LAMBDA w : w.pid # pid)

\* ConfigHandler.do_POST, path /stop: a running process of the session is
\* terminated and waited for (5 s); when the wait times out the handler
\* answers 400 and the session stays; else the session is deleted.
StopSession(u) ==
    /\ IF u \notin DOMAIN user_sessions
       THEN UNCHANGED <<user_sessions, procs, windows>>
       ELSE LET session == user_sessions[u]
                alive == session.process # NoProcess /\ ~HasExited(procs, session.process)
            IN  \E exited \in BOOLEAN :
                   /\ alive \/ exited
                   /\ IF alive /\ ~exited
                      THEN UNCHANGED <<user_sessions, procs, windows>>
                      ELSE /\ user_sessions' = DictDel(user_sessions, u)
                           /\ procs' = IF alive
                                          THEN [procs EXCEPT ![session.process] = "exited"]
                                          ELSE procs
                           /\ windows' = IF alive
                                            THEN WithoutPid(windows, session.process)
                                            ELSE windows
    /\ Unobserved
    /\ UNCHANGED <<device_mappings, loopVars, btn, lockVars, waitVars, configVars, upstream, stop_requested>>

\* -------------------------------------------------- the operating system

\* A window with a free handle appears on top, owned by a running launched
\* process or by a process the router did not launch.
WindowCreate(h, owner) ==
    /\ h \in FreeHwnds
    /\ owner = ExternalPid \/ (owner \in 1..Len(procs) /\ procs[owner] = "running")
    /\ windows' = <<[hwnd |-> h, pid |-> owner]>> \o windows
    /\ Unobserved
    /\ UNCHANGED <<routerVars, procs, loopVars, btn, lockVars, waitVars, configVars, upstream, stop_requested>>

\* A window is closed.
WindowDestroy(h) ==
    /\ IsWindow(windows, h)
    /\ windows' = SelectSeq(windows, LAMBDA w : w.hwnd # h)
    /\ Unobserved
    /\ UNCHANGED <<routerVars, procs, loopVars, btn, lockVars, waitVars, configVars, upstream, stop_requested>>

\* The user (or an injected click) activates a window that is not on top.
WindowActivate(h) ==
    /\ IsWindow(windows, h)
    /\ Foreground(windows) # h
    /\ windows' = SetForegroundWindow(windows, h)
    /\ Unobserved
    /\ UNCHANGED <<routerVars, procs, loopVars, btn, lockVars, waitVars, configVars, upstream, stop_requested>>

\* A launched process exits; its windows go with it.
ProcessExit(p) ==
    /\ p \in 1..Len(procs)
    /\ procs[p] = "running"
    /\ procs' = [procs EXCEPT ![p] = "exited"]
    /\ windows' = WithoutPid(windows, p)
    /\ Unobserved
    /\ UNCHANGED <<routerVars, loopVars, btn, lockVars, waitVars, configVars, upstream, stop_requested>>

\* ----------------------------------------------------------------- routing

\* One call of route_event(event).
RouteEvent(event) ==
    LET r == route_event(event, device_mappings, user_sessions, windows, procs)
    IN  /\ last = NoRoute
        /\ user_sessions' = r.sessions
        /\ windows' = ApplyCalls(windows, r.calls)
        /\ last' = Routed(event, r, device_mappings, user_sessions, windows, procs)
        /\ UNCHANGED <<device_mappings, procs, loopVars, btn, lockVars, waitVars, configVars, upstream, stop_requested>>

ControlPlane ==
    \/ \E d \in DeviceIds, u \in UserIds : AddDeviceMapping(d, u)
    \/ \E d \in DeviceIds : RemoveDeviceMapping(d)
    \/ \E u \in UserIds : LaunchEditor(u)
    \/ \E u \in UserIds, h \in Hwnds : AttachToWindow(u, h)
    \/ \E u \in UserIds : StopSession(u)

OperatingSystem ==
    \/ \E h \in Hwnds, owner \in {ExternalPid} \cup Pids : WindowCreate(h, owner)
    \/ \E h \in Hwnds : WindowDestroy(h)
    \/ \E h \in Hwnds : WindowActivate(h)
    \/ \E p \in Pids : ProcessExit(p)

\* The record of the last route is dropped.
Forget ==
    /\ last # NoRoute
    /\ last' = NoRoute
    /\ UNCHANGED <<routerVars, osVars, loopVars, btn, lockVars, waitVars, configVars, upstream, stop_requested>>

Next ==
    \/ ControlPlane
    \/ OperatingSystem
    \/ \E event \in Events : RouteEvent(event)
    \/ Forget

Spec == Init /\ [][Next]_vars

\* ------------------------------------------------- inject_mouse_button alone

\* inject_mouse_button is given any bitmask 0..MaxButtons.
InitButtons ==
    /\ device_mappings = EmptyDict
    /\ user_sessions = [u \in {} |-> NoSessionRec]
    /\ procs = <<>>
    /\ windows = <<>>
    /\ last = NoRoute
    /\ running = FALSE
    /\ socket = "None"
    /\ pc = "init"
    /\ buffer = <<>>
    /\ stream = <<>>
    /\ routed = <<>>
    /\ conns = 0
    /\ lock = NoThread /\ http = HttpIdle /\ route = RouteIdle
    /\ reconnect_delay = 0 /\ slept = 0 /\ discarded = FALSE
    /\ Constructed
    /\ upstream = <<>>
    /\ stop_requested = FALSE
    /\ btn \in {[buttons |-> b, calls |-> <<>>, done |-> FALSE] : b \in 0..MaxButtons}

\* One call of inject_mouse_button(btn.buttons).
InjectMouseButton ==
    /\ ~btn.done
    /\ btn' = [btn EXCEPT !.calls = inject_mouse_button(btn.buttons), !.done = TRUE]
    /\ UNCHANGED <<routerVars, osVars, last, loopVars, lockVars, waitVars, configVars, upstream, stop_requested>>

NextButtons == InjectMouseButton

SpecButtons == InitButtons /\ [][NextButtons]_vars

\* ---------------------------------------- the two threads and the lock
\*
\* The receive loop (main thread) runs route_event while the HTTP server
\* thread (HTTPServer.serve_forever, one request at a time) runs the
\* control-plane handlers.  Each thread advances one access of the shared
\* tables at a time; InputRouter.lock is taken where the code takes it.

\* The devices and events of this specification: VK_RETURN on each device.
LockDeviceIds == {"dev-1", "dev-2"}

LockEvents ==
    {[device_id |-> d, type |-> "keyboard", vkey |-> 13, dx |-> 0, dy |-> 0, buttons |-> 0] :
        d \in LockDeviceIds}

\* A user the configuration does not have.
UnknownUser == "carol"

\* The first position of each control-plane request.
FirstPc(op) ==
    CASE op = "add" -> "acquire"
      [] op = "remove" -> "acquire"
      [] op = "config" -> "replace"
      [] op = "launch" -> "popen"
      [] op = "attach" -> "register"
      [] op = "stop" -> "terminate"

\* The requests: POST /mapping, DELETE /mapping/<id>, POST /config (with the
\* table {device_id: user_id}), POST /launch, POST /attach, POST /stop.
HttpRequests ==
    {[op |-> o, pc |-> FirstPc(o), device_id |-> d, user_id |-> u, hwnd |-> NoHwnd] :
        o \in {"add", "config"}, d \in LockDeviceIds, u \in UserIds}
    \cup {[op |-> "remove", pc |-> FirstPc("remove"), device_id |-> d, user_id |-> NoUser,
           hwnd |-> NoHwnd] : d \in LockDeviceIds}
    \cup {[op |-> o, pc |-> FirstPc(o), device_id |-> "", user_id |-> u, hwnd |-> NoHwnd] :
        o \in {"launch", "stop"}, u \in UserIds}
    \cup {[op |-> "launch", pc |-> FirstPc("launch"), device_id |-> "", user_id |-> UnknownUser,
           hwnd |-> NoHwnd]}
    \cup {[op |-> "attach", pc |-> FirstPc("attach"), device_id |-> "", user_id |-> u,
           hwnd |-> h] : u \in UserIds, h \in Hwnds}

\* The request is answered with success (200); the thread waits for the
\* next one.
HttpDone == [http EXCEPT !.pc = "done"]

\* The request is answered with an error status (400, 404, 500).
HttpRefused == [http EXCEPT !.pc = "refused"]

\* One external window is open, nothing is configured.
InitLock ==
    /\ device_mappings = EmptyDict
    /\ user_sessions = [u \in {} |-> NoSessionRec]
    /\ procs = <<>>
    /\ windows = <<[hwnd |-> 1, pid |-> ExternalPid]>>
    /\ last = NoRoute
    /\ running = FALSE
    /\ socket = "None"
    /\ pc = "init"
    /\ buffer = <<>>
    /\ stream = <<>>
    /\ routed = <<>>
    /\ conns = 0
    /\ lock = NoThread /\ http = HttpIdle /\ route = RouteIdle
    /\ reconnect_delay = 0 /\ slept = 0 /\ discarded = FALSE
    /\ Constructed
    /\ upstream = <<>>
    /\ stop_requested = FALSE
    /\ btn = [buttons |-> 0, calls |-> <<>>, done |-> FALSE]

\* ConfigHandler.do_POST / do_DELETE: a request arrives and is parsed.
HttpRequest(req) ==
    /\ http.pc \in {"idle", "done", "refused"}
    /\ http' = req
    /\ UNCHANGED <<routerVars, osVars, last, loopVars, btn, lock, route, waitVars, configVars, upstream, stop_requested>>

\* add_device_mapping / remove_device_mapping: `with self.lock`, entered.
LockAcquire ==
    /\ http.pc = "acquire"
    /\ lock = NoThread
    /\ lock' = "http"
    /\ http' = [http EXCEPT !.pc = IF http.op = "add" THEN "write" ELSE "delete"]
    /\ UNCHANGED <<routerVars, osVars, last, loopVars, btn, route, waitVars, configVars, upstream, stop_requested>>

\* add_device_mapping: self.device_mappings[device_id] = user_id, and
\* _save_config.
MappingWrite ==
    /\ http.pc = "write"
    /\ device_mappings' = DictSet(device_mappings, http.device_id, http.user_id)
    /\ SaveConfig(config, device_mappings')
    /\ http' = [http EXCEPT !.pc = "release"]
    /\ UNCHANGED <<user_sessions, osVars, last, loopVars, btn, lock, route, waitVars, upstream, stop_requested>>

\* remove_device_mapping: del self.device_mappings[device_id] and
\* _save_config, if present.
MappingDelete ==
    /\ http.pc = "delete"
    /\ IF http.device_id \in DOMAIN device_mappings
       THEN /\ device_mappings' = DictDel(device_mappings, http.device_id)
            /\ SaveConfig(config, device_mappings')
       ELSE UNCHANGED <<device_mappings, configVars>>
    /\ http' = [http EXCEPT !.pc = "release"]
    /\ UNCHANGED <<user_sessions, osVars, last, loopVars, btn, lock, route, waitVars, upstream, stop_requested>>

\* add_device_mapping / remove_device_mapping: `with self.lock`, left; the
\* call returns.
LockRelease ==
    /\ http.pc = "release"
    /\ lock' = NoThread
    /\ http' = HttpDone
    /\ UNCHANGED <<routerVars, osVars, last, loopVars, btn, route, waitVars, configVars, upstream, stop_requested>>

\* POST /config with a body that has device_mappings: router.config.update,
\* router.device_mappings = data['device_mappings'], _save_config.
ConfigReplace ==
    /\ http.pc = "replace"
    /\ device_mappings' = DictSet(EmptyDict, http.device_id, http.user_id)
    /\ SaveConfig(DictUpdate(config, [device_mappings |-> device_mappings']),
                  device_mappings')
    /\ http' = HttpDone
    /\ UNCHANGED <<user_sessions, osVars, last, loopVars, btn, lock, route, waitVars, upstream, stop_requested>>

\* launch_editor: None for a user the configuration does not have (500);
\* subprocess.Popen starts the editor, or raises and None is returned (500).
LaunchPopen ==
    /\ http.pc = "popen"
    /\ \E started \in BOOLEAN :
          IF started /\ http.user_id \in UsersOf(config) /\ Len(procs) < MaxPid
          THEN /\ procs' = Append(procs, "running")
               /\ http' = [http EXCEPT !.pc = "register"]
          ELSE /\ ~started
               /\ procs' = procs
               /\ http' = HttpRefused
    /\ UNCHANGED <<routerVars, windows, last, loopVars, btn, lock, route, waitVars, configVars, upstream, stop_requested>>

\* Variant of SessionRegister: attach_to_window does not look whether the
\* handle is a window.
SessionRegisterUnchecked ==
    /\ http.pc = "register"
    /\ IF http.op = "launch"
       THEN \E h \in FreeHwnds \cup {NoHwnd} :
               LET pid == Len(procs)
                   wins == IF h = NoHwnd THEN windows
                           ELSE <<[hwnd |-> h, pid |-> pid]>> \o windows
               IN  /\ windows' = wins
                   /\ user_sessions' =
                         DictSet(user_sessions, http.user_id,
                                 UserSession(pid, FindWindowByPid(wins, pid), pid))
                   /\ http' = HttpDone
       ELSE /\ windows' = windows
            /\ user_sessions' = DictSet(user_sessions, http.user_id,
                                        UserSession(NoProcess, http.hwnd, NoPid))
            /\ http' = IF IsWindow(windows, http.hwnd) THEN HttpDone ELSE HttpRefused
    /\ UNCHANGED <<device_mappings, procs, last, loopVars, btn, lock, route, waitVars, configVars, upstream, stop_requested>>

\* launch_editor, after the sleep (the window h may have appeared):
\* self.user_sessions[user_id] = session.
\* attach_to_window: False for a handle that is no window (400), else
\* self.user_sessions[user_id] = session.
SessionRegister ==
    /\ http.pc = "register"
    /\ IF http.op = "launch"
       THEN \E h \in FreeHwnds \cup {NoHwnd} :
               LET pid == Len(procs)
                   wins == IF h = NoHwnd THEN windows
                           ELSE <<[hwnd |-> h, pid |-> pid]>> \o windows
               IN  /\ windows' = wins
                   /\ user_sessions' =
                         DictSet(user_sessions, http.user_id,
                                 UserSession(pid, FindWindowByPid(wins, pid), pid))
                   /\ http' = HttpDone
       ELSE IF ~IsWindow(windows, http.hwnd)
       THEN /\ http' = HttpRefused
            /\ UNCHANGED <<windows, user_sessions>>
       ELSE /\ windows' = windows
            /\ user_sessions' = DictSet(user_sessions, http.user_id,
                                        UserSession(NoProcess, http.hwnd, NoPid))
            /\ http' = HttpDone
    /\ UNCHANGED <<device_mappings, procs, last, loopVars, btn, lock, route, waitVars, configVars, upstream, stop_requested>>

\* POST /stop: the session is looked up (404 when there is none) and its
\* running process terminated and waited for (5 s); when the wait times out
\* the handler answers 400 and the session stays.
StopTerminate ==
    /\ http.pc = "terminate"
    /\ IF http.user_id \notin DOMAIN user_sessions
       THEN /\ http' = HttpRefused
            /\ UNCHANGED <<procs, windows>>
       ELSE LET session == user_sessions[http.user_id]
                alive == session.process # NoProcess /\ ~HasExited(procs, session.process)
            IN  \E exited \in BOOLEAN :
                   /\ alive \/ exited
                   /\ IF alive /\ ~exited
                      THEN /\ http' = HttpRefused
                           /\ UNCHANGED <<procs, windows>>
                      ELSE /\ procs' = IF alive
                                          THEN [procs EXCEPT ![session.process] = "exited"]
                                          ELSE procs
                           /\ windows' = IF alive
                                            THEN WithoutPid(windows, session.process)
                                            ELSE windows
                           /\ http' = [http EXCEPT !.pc = "unregister"]
    /\ UNCHANGED <<routerVars, last, loopVars, btn, lock, route, waitVars, configVars, upstream, stop_requested>>

\* POST /stop: del router.user_sessions[user_id].
StopDelete ==
    /\ http.pc = "unregister"
    /\ user_sessions' = DictDel(user_sessions, http.user_id)
    /\ http' = HttpDone
    /\ UNCHANGED <<device_mappings, osVars, last, loopVars, btn, lock, route, waitVars, configVars, upstream, stop_requested>>

\* event_loop calls route_event(event): device_id and type are read.
RouteEnter(event) ==
    /\ route.pc = "idle"
    /\ route' = [RouteIdle EXCEPT !.pc = "lookup", !.event = event]
    /\ UNCHANGED <<routerVars, osVars, last, loopVars, btn, lock, http, waitVars, configVars, upstream, stop_requested>>

\* The mapping request the control-plane thread has answered last, when it
\* was for device d and the thread has taken no other request since.
AnsweredFor(d) ==
    IF http.pc = "done" /\ http.op \in {"add", "remove"} /\ http.device_id = d
    THEN http ELSE HttpIdle

\* route_event: user_id = self.device_mappings.get(device_id); return when
\* there is none.
RouteLookup ==
    /\ route.pc = "lookup"
    /\ LET user_id == LookupUser(device_mappings, route.event.device_id)
       IN  route' = [route EXCEPT !.user_id = user_id,
                                  !.after = AnsweredFor(route.event.device_id),
                                  !.pc = IF user_id = NoUser THEN "idle" ELSE "session"]
    /\ UNCHANGED <<routerVars, osVars, last, loopVars, btn, lock, http, waitVars, configVars, upstream, stop_requested>>

\* route_event: session = self.user_sessions.get(user_id); return when
\* there is none.  The local session refers to the registry's object.
RouteSession ==
    /\ route.pc = "session"
    /\ route' = IF route.user_id \in DOMAIN user_sessions
                THEN [route EXCEPT !.session = user_sessions[route.user_id],
                                   !.pc = "inject"]
                ELSE [route EXCEPT !.pc = "idle"]
    /\ UNCHANGED <<routerVars, osVars, last, loopVars, btn, lock, http, waitVars, configVars, upstream, stop_requested>>

\* route_event from the check of the session's process to its return, on
\* the session object it holds: what it writes to the object (hwnd) shows
\* in the registry when the registry still holds that object.
RouteInject ==
    /\ route.pc = "inject"
    /\ LET u == route.user_id
           r == route_event(route.event,
                            DictSet(EmptyDict, route.event.device_id, u),
                            DictSet([x \in {} |-> NoSessionRec], u, route.session),
                            windows, procs)
       IN  /\ user_sessions' =
                 IF u \in DOMAIN user_sessions /\ user_sessions[u] = route.session
                 THEN DictSet(user_sessions, u, r.sessions[u])
                 ELSE user_sessions
           /\ windows' = ApplyCalls(windows, r.calls)
           /\ route' = [route EXCEPT !.pc = "idle", !.calls = r.calls]
    /\ UNCHANGED <<device_mappings, procs, last, loopVars, btn, lock, http, waitVars, configVars, upstream, stop_requested>>

NextLock ==
    \/ \E req \in HttpRequests : HttpRequest(req)
    \/ LockAcquire
    \/ MappingWrite
    \/ MappingDelete
    \/ LockRelease
    \/ ConfigReplace
    \/ LaunchPopen
    \/ SessionRegister
    \/ StopTerminate
    \/ StopDelete
    \/ \E event \in LockEvents : RouteEnter(event)
    \/ RouteLookup
    \/ RouteSession
    \/ RouteInject

SpecLock == InitLock /\ [][NextLock]_vars

\* ------------------------------------------------------ the upstream stream

\* The stream is a sequence of symbols: a newline, the text of one event
\* object, the malformed text `{not json`, the text of a JSON value that is
\* not an object (a number), and, in the record of what a connection
\* delivered, the end of data.
NL == [kind |-> "nl", event |-> NoEvent]
Bad == [kind |-> "bad", event |-> NoEvent]
Num == [kind |-> "num", event |-> NoEvent]
Obj(e) == [kind |-> "obj", event |-> e]
EOF == [kind |-> "eof", event |-> NoEvent]

\* The two bytes of a character UTF-8 encodes in two bytes.
Lead == [kind |-> "lead", event |-> NoEvent]
Trail == [kind |-> "trail", event |-> NoEvent]

\* data.decode('utf-8') returns: every lead byte of the chunk is followed by
\* its continuation byte and every continuation byte follows its lead byte.
\* Else it raises UnicodeDecodeError.
Utf8Decodes(chunk) ==
    \A i \in 1..Len(chunk) :
        /\ chunk[i] = Lead => (i < Len(chunk) /\ chunk[i + 1] = Trail)
        /\ chunk[i] = Trail => (i > 1 /\ chunk[i - 1] = Lead)

\* The events the upstream service sends: VK_RETURN on dev-1, and a motion
\* of dev-1's mouse.
LoopEvents ==
    {[device_id |-> "dev-1", type |-> "keyboard", vkey |-> 13, dx |-> 0, dy |-> 0, buttons |-> 0],
     [device_id |-> "dev-1", type |-> "mouse", vkey |-> 0, dx |-> 5, dy |-> -3, buttons |-> 0]}

Alphabet == {NL, Bad, Num} \cup {Obj(e) : e \in LoopEvents}

\* What one recv() may return: 1..MaxChunk symbols.
Chunks == UNION {[1..n -> Alphabet] : n \in 1..MaxChunk}

\* json.loads(line) for a non-blank line: a dict for the text of exactly one
\* object, another value for a number (digits that follow digits are still a
\* number), JSONDecodeError for anything else.
JsonLoads(line) ==
    IF Len(line) = 1 /\ line[1].kind = "obj"
    THEN [status |-> "dict", event |-> line[1].event]
    ELSE IF \A i \in 1..Len(line) : line[i].kind = "num"
    THEN [status |-> "value", event |-> NoEvent]
    ELSE [status |-> "JSONDecodeError", event |-> NoEvent]

\* '\n' in buffer, and the place of the first one.
HasNewline(buf) == \E i \in 1..Len(buf) : buf[i] = NL
FirstNewline(buf) == CHOOSE i \in 1..Len(buf) : buf[i] = NL /\ \A j \in 1..(i - 1) : buf[j] # NL

RECURSIVE ProcessLines(_, _, _)
\* event_loop's `while '\n' in buffer`: each complete line is split off;
\* a blank line is skipped; a line json.loads rejects is logged and skipped;
\* a dict is routed; a value that is no dict makes route_event raise
\* AttributeError (event.get), which only the outer handler catches: the
\* loop over the lines is left (raised).  st is the local and shared state
\* the lines work on.
ProcessLines(st, mappings, ps) ==
    IF ~HasNewline(st.buffer) THEN st
    ELSE LET i == FirstNewline(st.buffer)
             line == SubSeq(st.buffer, 1, i - 1)
             rest == SubSeq(st.buffer, i + 1, Len(st.buffer))
             j == JsonLoads(line)
         IN  IF line = <<>> \/ j.status = "JSONDecodeError"
             THEN ProcessLines([st EXCEPT !.buffer = rest], mappings, ps)
             ELSE IF j.status = "value"
             THEN [st EXCEPT !.buffer = rest, !.raised = TRUE]
             ELSE LET r == route_event(j.event, mappings, st.sessions, st.windows, ps)
                  IN  ProcessLines(
                          [buffer |-> rest,
                           sessions |-> r.sessions,
                           windows |-> ApplyCalls(st.windows, r.calls),
                           routed |-> Append(st.routed, j.event),
                           last |-> Routed(j.event, r, mappings, st.sessions, st.windows, ps),
                           raised |-> FALSE],
                          mappings, ps)

\* ----------------------------------------------------------- run() and stop()

\* The router as run() may find it: nothing configured; dev-1 mapped to
\* alice, who is attached to window 1 of another process; dev-1 mapped to
\* alice, whose launched editor (pid 1) shows window 1.
LoopScenarios ==
    {[mappings |-> EmptyDict, sessions |-> [u \in {} |-> NoSessionRec],
      procs |-> <<>>, windows |-> <<>>],
     [mappings |-> DictSet(EmptyDict, "dev-1", "alice"),
      sessions |-> DictSet([u \in {} |-> NoSessionRec], "alice",
                           UserSession(NoProcess, 1, NoPid)),
      procs |-> <<>>, windows |-> <<[hwnd |-> 1, pid |-> ExternalPid]>>],
     [mappings |-> DictSet(EmptyDict, "dev-1", "alice"),
      sessions |-> DictSet([u \in {} |-> NoSessionRec], "alice",
                           UserSession(1, 1, 1)),
      procs |-> <<"running">>, windows |-> <<[hwnd |-> 1, pid |-> 1]>>]}

InitLoop ==
    /\ \E sc \in LoopScenarios :
          /\ device_mappings = sc.mappings
          /\ user_sessions = sc.sessions
          /\ procs = sc.procs
          /\ windows = sc.windows
    /\ last = NoRoute
    /\ running = FALSE
    /\ socket = "None"
    /\ pc = "init"
    /\ buffer = <<>>
    /\ stream = <<>>
    /\ routed = <<>>
    /\ conns = 0
    /\ lock = NoThread /\ http = HttpIdle /\ route = RouteIdle
    /\ reconnect_delay = 0 /\ slept = 0 /\ discarded = FALSE
    /\ Constructed
    /\ upstream = <<>>
    /\ stop_requested = FALSE
    /\ btn = [buttons |-> 0, calls |-> <<>>, done |-> FALSE]

\* run() is entered: running is set and reconnect_delay read from the
\* settings, once.
Run ==
    /\ pc = "init"
    /\ running' = TRUE
    /\ reconnect_delay' = ReconnectDelayOf(config)
    /\ pc' = "run_top"
    /\ last' = NoRoute
    /\ UNCHANGED <<routerVars, osVars, socket, buffer, stream, routed, conns, btn,
                   lockVars, slept, discarded,
                   configVars, upstream, stop_requested>>

\* Variant of ConnectOk: event_loop goes on with the buffer the last
\* connection left.
ConnectOkKeepsBuffer ==
    /\ pc = "run_top" /\ running
    /\ conns < MaxConn
    /\ socket' = "open"
    /\ conns' = conns + 1
    /\ buffer' = buffer
    /\ discarded' = FALSE
    /\ stream' = <<>>
    /\ routed' = <<>>
    /\ pc' = "recv"
    /\ last' = NoRoute
    /\ UNCHANGED <<routerVars, osVars, running, btn, lockVars, reconnect_delay, slept,
                   configVars, upstream, stop_requested>>

\* run(): connect_to_service succeeds and event_loop starts with an empty
\* buffer of its own; what the last event_loop had left in its buffer went
\* with that call.
ConnectOk ==
    /\ pc = "run_top" /\ running
    /\ conns < MaxConn
    /\ socket' = "open"
    /\ conns' = conns + 1
    /\ buffer' = <<>>
    /\ discarded' = (buffer # <<>>)
    /\ stream' = <<>>
    /\ routed' = <<>>
    /\ pc' = "recv"
    /\ last' = NoRoute
    /\ UNCHANGED <<routerVars, osVars, running, btn, lockVars, reconnect_delay, slept,
                   configVars, upstream, stop_requested>>

\* run(): connect_to_service fails (socket = None); the reconnect wait
\* follows.
ConnectFail ==
    /\ pc = "run_top" /\ running
    /\ socket' = "None"
    /\ pc' = "sleep"
    /\ last' = NoRoute
    /\ UNCHANGED <<routerVars, osVars, running, buffer, stream, routed, conns, btn, lockVars, waitVars, configVars, upstream, stop_requested>>

\* event_loop: recv() returns a chunk, the next data the upstream has sent
\* (any data when none is on its way); the chunk is decoded and the lines it
\* completes are handled.  When decoding or handling raises, the loop is left
\* and run() goes to its wait.  A recv() that stop() left pending returns the
\* chunk as well; its lines are handled, then the loop ends (running is
\* False) and run() is back at the top of its own loop.
Recv(chunk) ==
    /\ pc \in {"recv", "blocked"}
    /\ pc = "recv" => (running /\ socket = "open")
    /\ Len(stream) + Len(chunk) <= MaxStream
    /\ upstream # <<>> =>
          (Len(chunk) <= Len(upstream) /\ chunk = SubSeq(upstream, 1, Len(chunk)))
    /\ upstream' = IF upstream = <<>> THEN upstream
                   ELSE SubSeq(upstream, Len(chunk) + 1, Len(upstream))
    /\ LET st == IF ~Utf8Decodes(chunk)
                 THEN [buffer |-> buffer, sessions |-> user_sessions,
                       windows |-> windows, routed |-> routed,
                       last |-> NoRoute, raised |-> TRUE]
                 ELSE ProcessLines([buffer |-> buffer \o chunk, sessions |-> user_sessions,
                                    windows |-> windows, routed |-> routed,
                                    last |-> NoRoute, raised |-> FALSE],
                                   device_mappings, procs)
       IN  /\ buffer' = st.buffer
           /\ user_sessions' = st.sessions
           /\ windows' = st.windows
           /\ routed' = st.routed
           /\ last' = st.last
           /\ pc' = IF pc = "blocked" THEN "run_top"
                    ELSE IF st.raised THEN "sleep" ELSE "recv"
    /\ stream' = stream \o chunk
    /\ UNCHANGED <<device_mappings, procs, running, socket, conns, btn, lockVars, waitVars, configVars, stop_requested>>

\* event_loop: recv() returns no data ("Server disconnected"): the loop is
\* left and run() goes to its wait (to the top of its loop when running is
\* False: the recv() was one that stop() left pending).
RecvEOF ==
    /\ pc \in {"recv", "blocked"}
    /\ pc = "recv" => (running /\ socket = "open")
    /\ stream' = Append(stream, EOF)
    /\ pc' = IF pc = "blocked" THEN "run_top" ELSE "sleep"
    /\ last' = NoRoute
    /\ UNCHANGED <<routerVars, osVars, running, socket, buffer, routed, conns, btn, lockVars, waitVars, configVars, upstream, stop_requested>>

\* event_loop after stop(): running is False, the loop ends and run() is back
\* at the top of its own loop.
EventLoopExit ==
    /\ pc = "recv" /\ ~running
    /\ pc' = "run_top"
    /\ last' = NoRoute
    /\ UNCHANGED <<routerVars, osVars, running, socket, buffer, stream, routed, conns, btn, lockVars, waitVars, configVars, upstream, stop_requested>>

\* Variant of ReconnectWait: the delay doubles with every wait.
ReconnectWaitBackoff ==
    /\ pc = "sleep"
    /\ slept' = reconnect_delay
    /\ reconnect_delay' = 2 * reconnect_delay
    /\ pc' = "run_top"
    /\ last' = NoRoute
    /\ UNCHANGED <<routerVars, osVars, running, socket, buffer, stream, routed, conns, btn,
                   lockVars, discarded,
                   configVars, upstream, stop_requested>>

\* run(): time.sleep(reconnect_delay) is over.
ReconnectWait ==
    /\ pc = "sleep"
    /\ slept' = reconnect_delay
    /\ pc' = "run_top"
    /\ last' = NoRoute
    /\ UNCHANGED <<routerVars, osVars, running, socket, buffer, stream, routed, conns, btn,
                   lockVars, reconnect_delay, discarded,
                   configVars, upstream, stop_requested>>

\* run(): running is False at the top of the loop; disconnect() and return.
RunExit ==
    /\ pc = "run_top" /\ ~running
    /\ socket' = "None"
    /\ pc' = "done"
    /\ last' = NoRoute
    /\ UNCHANGED <<routerVars, osVars, running, buffer, stream, routed, conns, btn, lockVars, waitVars, configVars, upstream, stop_requested>>

\* The sessions' own processes that are running.
RunningOwned ==
    {user_sessions[u].process : u \in {v \in DOMAIN user_sessions :
        /\ user_sessions[v].process # NoProcess
        /\ ~HasExited(procs, user_sessions[v].process)}}

\* InputRouter.stop(): running is cleared, the connection closed, and every
\* session's running process terminated.  The socket has no timeout
\* (settimeout(None) after connect), so an event_loop that stop() finds in
\* recv() either sees the call fail on the closed socket (it then leaves at
\* EventLoopExit) or stays blocked in it until the upstream sends something:
\* which of the two depends on the platform and on the thread stop() runs on.
Stop ==
    /\ running' = FALSE
    /\ socket' = "None"
    /\ procs' = [p \in DOMAIN procs |-> IF p \in RunningOwned THEN "exited" ELSE procs[p]]
    /\ windows' = SelectSeq(windows, LAMBDA w : w.pid \notin RunningOwned)
    /\ pc' \in (IF pc = "recv" THEN {"recv", "blocked"} ELSE {pc})
    /\ stop_requested' = TRUE
    /\ last' = NoRoute
    /\ UNCHANGED <<routerVars, buffer, stream, routed, conns, btn, lockVars, waitVars, configVars, upstream>>

NextLoop ==
    \/ Run
    \/ ConnectOk
    \/ ConnectFail
    \/ \E chunk \in Chunks : Recv(chunk)
    \/ RecvEOF
    \/ EventLoopExit
    \/ ReconnectWait
    \/ RunExit
    \/ Stop

SpecLoop == InitLoop /\ [][NextLoop]_vars

\* ----------------------------------------------- stop() and the control plane

\* route_event, the control plane and the operating system as in Spec, and
\* stop() called at any time.
NextStop ==
    \/ Next
    \/ Stop

SpecStop == Init /\ [][NextStop]_vars

\* ------------------------------------------------- run() under fair scheduling

\* What one recv() returns here: one complete line, holding an event or a
\* number.
RunChunks == {<<Obj(e), NL>> : e \in LoopEvents} \cup {<<Num, NL>>}

NextRun ==
    \/ Run
    \/ ConnectOk
    \/ ConnectFail
    \/ \E chunk \in RunChunks : Recv(chunk)
    \/ RecvEOF
    \/ EventLoopExit
    \/ ReconnectWait
    \/ RunExit
    \/ Stop

\* The main thread keeps running: time.sleep returns, a loop whose condition
\* is False is left, and connect_to_service returns (its connect has a 5 s
\* timeout).  The upstream service does not refuse for ever: a connect
\* attempted again and again succeeds at some time.  Nothing is assumed of
\* what the upstream sends, or of when stop() is called.
FairRun ==
    /\ WF_vars(ReconnectWait)
    /\ WF_vars(EventLoopExit)
    /\ WF_vars(RunExit)
    /\ WF_vars(ConnectOk \/ ConnectFail)
    /\ SF_vars(ConnectOk)

SpecRun == InitLoop /\ [][NextRun]_vars /\ FairRun

\* ------------------------------------------- run() and the control plane

\* run() reading from the upstream while control-plane requests are served
\* and launched processes exit.
NextDaemon ==
    \/ NextRun
    \/ ControlPlane
    \/ \E p \in Pids : ProcessExit(p)

SpecDaemon == InitLoop /\ [][NextDaemon]_vars

\* ------------------------------------------------ one stream, cut into chunks

\* What the upstream sends here: newlines, the text of VK_RETURN on dev-1,
\* numbers, and a character of two bytes.
CutAlphabet ==
    {NL, Num, Lead, Trail,
     Obj([device_id |-> "dev-1", type |-> "keyboard", vkey |-> 13, dx |-> 0, dy |-> 0,
          buttons |-> 0])}

\* The data of one connection: up to MaxStream symbols of well-formed UTF-8.
CutStreams ==
    {data \in UNION {[1..n -> CutAlphabet] : n \in 1..MaxStream} : Utf8Decodes(data)}

\* The router as run() may find it, and the data the upstream is going to
\* send on the connection.
InitCuts ==
    /\ \E sc \in LoopScenarios :
          /\ device_mappings = sc.mappings
          /\ user_sessions = sc.sessions
          /\ procs = sc.procs
          /\ windows = sc.windows
    /\ last = NoRoute
    /\ running = FALSE
    /\ socket = "None"
    /\ pc = "init"
    /\ buffer = <<>>
    /\ stream = <<>>
    /\ routed = <<>>
    /\ conns = 0
    /\ lock = NoThread /\ http = HttpIdle /\ route = RouteIdle
    /\ reconnect_delay = 0 /\ slept = 0 /\ discarded = FALSE
    /\ Constructed
    /\ upstream \in CutStreams
    /\ stop_requested = FALSE
    /\ btn = [buttons |-> 0, calls |-> <<>>, done |-> FALSE]

\* run() connects once; each recv() returns the next n symbols of the data,
\* for any n, and no data once the upstream has sent everything and closed.
NextCuts ==
    \/ Run
    \/ ConnectOk
    \/ \E n \in 1..MaxStream : n <= Len(upstream) /\ Recv(SubSeq(upstream, 1, n))
    \/ upstream = <<>> /\ RecvEOF

SpecCuts == InitCuts /\ [][NextCuts]_vars

\* ------------------------------------------- the configuration and its file

\* The mapping tables over the devices dev-1 and dev-2.
ConfigTables == UNION {[D -> UserIds] : D \in SUBSET LockDeviceIds}

\* What the file at config_path may hold when the router is constructed:
\* nothing, a JSON array, text that is no JSON, a saved configuration (with
\* no mapping or with dev-1 mapped), or an object that has only users.
ConfigFiles ==
    {NoFile, ArrayFile, InvalidFile,
     FileOf(save_config(DefaultConfig, EmptyDict)),
     FileOf(save_config(DefaultConfig, DictSet(EmptyDict, "dev-1", "alice"))),
     FileOf([users |-> UserIds])}

\* The bodies of POST /config: a JSON array, the empty object, an object with
\* a mapping table, an object with settings.
ConfigBodies ==
    {[json |-> "array", value |-> EmptyDict], [json |-> "object", value |-> EmptyDict],
     [json |-> "object", value |-> [settings |-> [reconnect_delay_s |-> 1]]]}
    \cup {[json |-> "object", value |-> [device_mappings |-> t]] : t \in ConfigTables}

\* Before InputRouter(config_path) is called.
InitConfig ==
    /\ device_mappings = EmptyDict
    /\ user_sessions = [u \in {} |-> NoSessionRec]
    /\ procs = <<>>
    /\ windows = <<>>
    /\ last = NoRoute
    /\ running = FALSE
    /\ socket = "None"
    /\ pc = "new"
    /\ buffer = <<>>
    /\ stream = <<>>
    /\ routed = <<>>
    /\ conns = 0
    /\ lock = NoThread /\ http = HttpIdle /\ route = RouteIdle
    /\ reconnect_delay = 0 /\ slept = 0 /\ discarded = FALSE
    /\ config = EmptyDict
    /\ config_file \in ConfigFiles
    /\ disk \in {"ok", "failing"}
    /\ upstream = <<>>
    /\ stop_requested = FALSE
    /\ btn = [buttons |-> 0, calls |-> <<>>, done |-> FALSE]

\* InputRouter.__init__: config and device_mappings start empty, then
\* _load_config; _create_default_config ends with _save_config.
Construct ==
    /\ pc = "new"
    /\ LET loaded == load_config(config_file)
       IN  /\ device_mappings' = loaded.device_mappings
           /\ IF loaded.saves
              THEN SaveConfig(loaded.config, loaded.device_mappings)
              ELSE /\ config' = loaded.config
                   /\ UNCHANGED <<config_file, disk>>
    /\ pc' = "init"
    /\ Unobserved
    /\ UNCHANGED <<user_sessions, osVars, running, socket, buffer, stream, routed, conns,
                   btn, lockVars, waitVars, upstream, stop_requested>>

\* ConfigHandler.do_POST, path /config: router.config.update(data), the
\* live table replaced when data has device_mappings, _save_config; 400 and
\* no change for a body config.update rejects.
ConfigUpdate(body) ==
    /\ pc # "new"
    /\ IF body.json # "object"
       THEN UNCHANGED <<device_mappings, configVars>>
       ELSE /\ device_mappings' = IF "device_mappings" \in DOMAIN body.value
                                  THEN body.value.device_mappings
                                  ELSE device_mappings
            /\ SaveConfig(DictUpdate(config, body.value), device_mappings')
    /\ Unobserved
    /\ UNCHANGED <<user_sessions, osVars, loopVars, btn, lockVars, waitVars, upstream,
                   stop_requested>>

\* Writing the file starts or stops failing (permissions, a full disk).
DiskTurns ==
    /\ disk' = IF disk = "ok" THEN "failing" ELSE "ok"
    /\ Unobserved
    /\ UNCHANGED <<routerVars, osVars, loopVars, btn, lockVars, waitVars, config, config_file,
                   upstream, stop_requested>>

NextConfig ==
    \/ Construct
    \/ \E d \in LockDeviceIds, u \in UserIds : AddDeviceMapping(d, u)
    \/ \E d \in LockDeviceIds : RemoveDeviceMapping(d)
    \/ \E body \in ConfigBodies : ConfigUpdate(body)
    \/ DiskTurns

SpecConfig == InitConfig /\ [][NextConfig]_vars

\* ------------------------------------------------- reading the last route

\* route_event has just returned.
WasRouted == last.outcome # "None"

\* The session the event's device led to, as it was when the call began.
LastPre == IF last.had THEN last.before[last.user] ELSE NoSessionRec

\* The handles recorded, when the call began, in the other users' sessions.
LastOthers == {last.before[v].hwnd : v \in DOMAIN last.before \ {last.user}}

\* The call reached a session whose own process (if it has one) had not
\* exited: steps 1 to 3 of the routing algorithm did not drop the event.
ReachedSession == WasRouted /\ last.had /\ ~last.dead

\* The session had a handle, and the handle was that of an existing window.
HadLiveHandle == ReachedSession /\ LastPre.hwnd # NoHwnd /\ last.live

\* The session had a handle that was no window any more.
HadStaleHandle == ReachedSession /\ LastPre.hwnd # NoHwnd /\ ~last.live

\* The session's window was resolved: its handle was that of an existing
\* window, or it had none and the lookup by pid would find one.
ResolvedSession ==
    \/ HadLiveHandle
    \/ ReachedSession /\ LastPre.hwnd = NoHwnd /\ last.found # NoHwnd

\* A lookup by the session's pid could find nothing: the session owns no
\* process, or no window belongs to its process.
ResolutionFails == LastPre.process = NoProcess \/ last.found = NoHwnd

\* The translation of the six raw button bits: <<raw bit, injected flag>>.
ButtonTranslation ==
    {<<1, 2>>, <<2, 4>>, <<4, 8>>, <<8, 16>>, <<16, 32>>, <<32, 64>>}

\* Bit b (a power of two) is set in n.
HasBit(n, b) == (n \div b) % 2 = 1

\* The powers of two set in n.
BitsOf(n) == {b \in {1, 2, 4, 8, 16, 32, 64, 128, 256, 512} : HasBit(n, b)}

CallsWhere(P(_)) == SelectSeq(last.calls, P)
IsPost(c) == c.api = "PostMessageW"
IsMove(c) == c.api = "SendInput" /\ c.dwFlags = MOUSEEVENTF_MOVE
IsButton(c) == c.api = "SendInput" /\ c.dwFlags # MOUSEEVENTF_MOVE

\* --------------------------------------------------------------------- C1

\* C1: whenever route_event posts keyboard messages for an event of a device
\* mapped to user A, the window they are posted to is the one recorded in A's
\* session and is recorded in no other user's session.
C1_PostsOnlyToOwnWindow ==
    \A i \in 1..Len(last.calls) :
        IsPost(last.calls[i]) =>
            /\ last.calls[i].hwnd = user_sessions[last.user].hwnd
            /\ last.calls[i].hwnd \notin LastOthers

\* --------------------------------------------------------------------- C2

\* C2: routing a keyboard event calls nothing but PostMessageW on the
\* session's window (no set_foreground_window, no SendInput), and the
\* foreground window after the call is the one before it.
C2_KeyboardKeepsForeground ==
    (WasRouted /\ last.event.type = "keyboard") =>
        /\ \A i \in 1..Len(last.calls) :
              /\ IsPost(last.calls[i])
              /\ last.calls[i].hwnd = user_sessions[last.user].hwnd
        /\ Foreground(windows) = last.fg

\* A key was posted to a window that is not the foreground one.
C2_Witness ==
    /\ WasRouted /\ last.event.type = "keyboard"
    /\ last.outcome = "Delivered"
    /\ Len(last.calls) = 3
    /\ IsWindow(windows, last.calls[1].hwnd)
    /\ last.fg # last.calls[1].hwnd

\* --------------------------------------------------------------------- C3

\* C3: an event whose device_id is no key of the mapping table is dropped as
\* DroppedUnmappedDevice: no injection call is made and the session registry
\* is as it was.
C3_UnmappedDeviceDropped ==
    (WasRouted /\ ~last.mapped) =>
        /\ last.outcome = "DroppedUnmappedDevice"
        /\ last.calls = <<>>
        /\ user_sessions = last.before
        /\ last.refreshes = 0

\* An unmapped device's event was dropped while a session with a window that
\* exists was registered.
C3_Witness ==
    /\ WasRouted /\ ~last.mapped
    /\ last.outcome = "DroppedUnmappedDevice"
    /\ \E u \in DOMAIN user_sessions : IsWindow(windows, user_sessions[u].hwnd)

\* --------------------------------------------------------------------- C4

\* C4: an event for a session whose own process has exited is dropped as
\* DroppedProcessDead with no injection call, and the session's window handle
\* is None afterwards, whatever it was before.
C4_DeadProcessDropped ==
    (WasRouted /\ last.had /\ last.dead) =>
        /\ last.outcome = "DroppedProcessDead"
        /\ last.calls = <<>>
        /\ user_sessions[last.user].hwnd = NoHwnd

\* The process had exited and the session's handle was that of an existing
\* window when the event came.
C4_Witness ==
    /\ WasRouted /\ last.had /\ last.dead
    /\ LastPre.hwnd # NoHwnd /\ last.live
    /\ user_sessions[last.user].hwnd = NoHwnd

\* --------------------------------------------------------------------- C5

\* C5: for a session whose recorded handle is no window any more, route_event
\* re-resolves by pid exactly once, and when that fails (also for an attached
\* session, which owns no process) the event is dropped as
\* DroppedWindowUnresolvable and nothing is injected into the stale handle.
C5_StaleHandleDropped ==
    HadStaleHandle =>
        /\ last.refreshes = 1
        /\ ResolutionFails =>
              /\ last.outcome = "DroppedWindowUnresolvable"
              /\ \A i \in 1..Len(last.calls) : last.calls[i].hwnd # LastPre.hwnd

\* --------------------------------------------------------------------- C6

\* C6: for a mapped session with no window handle, when the resolution by pid
\* finds no window the event is dropped as DroppedWindowUnresolvable, nothing
\* is injected and the handle stays None.  (The resolution runs for a session
\* whose process has not exited; one whose process has exited is dropped
\* before it, as DroppedProcessDead, with the same effects.)
C6_UnresolvableDropped ==
    (WasRouted /\ last.had /\ LastPre.hwnd = NoHwnd /\ last.found = NoHwnd) =>
        /\ last.calls = <<>>
        /\ user_sessions[last.user].hwnd = NoHwnd
        /\ ~last.dead =>
              /\ last.outcome = "DroppedWindowUnresolvable"
              /\ last.refreshes = 1

\* A launched session without a window, its process running, no window of
\* the process to be found while another window exists: dropped.
C6_Witness ==
    /\ ReachedSession /\ LastPre.hwnd = NoHwnd /\ last.found = NoHwnd
    /\ LastPre.process # NoProcess
    /\ windows # <<>>
    /\ last.outcome = "DroppedWindowUnresolvable"

\* --------------------------------------------------------------------- C7

C8_MouseInjections ==
    (ResolvedSession /\ last.event.type = "mouse") =>
        LET e == last.event
            moves == CallsWhere(IsMove)
            clicks == CallsWhere(IsButton)
        IN  /\ last.outcome = "Delivered"
            /\ Len(moves) = IF e.dx # 0 \/ e.dy # 0 THEN 1 ELSE 0
            /\ \A i \in 1..Len(moves) : moves[i].dx = e.dx /\ moves[i].dy = e.dy
            /\ Len(clicks) <= 1
            /\ Len(clicks) = 1 => \E x \in ButtonTranslation : HasBit(e.buttons, x[1])
            /\ Len(moves) + Len(clicks) = Len(last.calls)
            /\ (e.dx = 0 /\ e.dy = 0 /\ e.buttons = 0) => last.calls = <<>>

\* A motion with dx = 0 and dy # 0 was injected once, with no button call.
C8_Witness ==
    /\ HadLiveHandle /\ last.event.type = "mouse"
    /\ last.event.dx = 0 /\ last.event.dy # 0
    /\ Len(CallsWhere(IsMove)) = 1
    /\ Len(CallsWhere(IsButton)) = 0

\* --------------------------------------------------------------------- C9

\* C9: for every bitmask the flags inject_mouse_button injects are exactly
\* the translations of the known bits set in it, carried by one injected
\* event (none when no known bit is set); other bits contribute nothing.
C9_ButtonFlagsTranslated ==
    btn.done =>
        LET expected == {t[2] : t \in {x \in ButtonTranslation : HasBit(btn.buttons, x[1])}}
        IN  IF expected = {}
            THEN btn.calls = <<>>
            ELSE /\ Len(btn.calls) = 1
                 /\ btn.calls[1].api = "SendInput"
                 /\ btn.calls[1].dx = 0 /\ btn.calls[1].dy = 0
                 /\ BitsOf(btn.calls[1].dwFlags) = expected

\* Left down, right down and an unknown bit (1 + 4 + 64) gave one event with
\* the flags left down and right down (2 + 8).
C9_Witness ==
    /\ btn.done
    /\ btn.buttons = 69
    /\ Len(btn.calls) = 1
    /\ btn.calls[1].dwFlags = 10

\* -------------------------------------------------------------------- C10

RECURSIVE ValidEvents(_, _)
\* The events of the complete lines of a stream that hold exactly the text
\* of one event object, in order (line is the line being collected).
ValidEvents(rest, line) ==
    IF rest = <<>> THEN <<>>
    ELSE IF Head(rest) = NL
    THEN (IF Len(line) = 1 /\ line[1].kind = "obj" THEN <<line[1].event>> ELSE <<>>) \o
         ValidEvents(Tail(rest), <<>>)
    ELSE ValidEvents(Tail(rest), Append(line, Head(rest)))

\* The connection has delivered data but not its end.
Delivering == running /\ socket = "open" /\ \A i \in 1..Len(stream) : stream[i] # EOF

\* C10: a line that does not decode into an event affects that line only:
\* while the connection delivers data the event loop is still reading it and
\* every valid complete line received so far has been routed exactly once.
C10_BadLineAffectsThatLineOnly ==
    Delivering =>
        /\ pc = "recv"
        /\ routed = ValidEvents(stream, <<>>)

\* -------------------------------------------------------------------- C11

\* The receive loop is inside route_event, before one of its reads of the
\* mapping table or the session registry.
TableReads == route.pc \in {"lookup", "session"}

\* The control-plane thread is before one of its writes of the mapping table
\* or the session registry.
TableWrites == http.pc \in {"write", "delete", "replace", "register", "unregister"}

\* C11: the routing path reads the mapping table and the session registry,
\* and the control plane writes them, only while holding the lock, so a
\* route_event that is between its reads never meets a pending write.
C11_TablesUnderLock ==
    /\ TableReads => lock = "loop"
    /\ TableWrites => lock = "http"
    /\ ~(TableReads /\ TableWrites)

\* -------------------------------------------------------------------- C12

\* C12: while the daemon is not stopped, a failed connect and the end of an
\* event_loop both lead to the reconnect wait, every wait lasts the delay
\* read when run() began (it never grows), the wait is followed by a new
\* connect attempt, and, the upstream accepting at some time, a daemon that
\* waits to reconnect gets to read from a connection again (unless it is
\* stopped).
C12_ReconnectsAfterFixedDelay ==
    /\ [](pc \in {"run_top", "recv", "sleep"} => reconnect_delay = reconnect_delay_s)
    /\ [][/\ (running /\ running' /\ pc \in {"run_top", "recv"} /\ pc' \notin {pc, "recv"})
                => pc' = "sleep"
          /\ (pc = "sleep" /\ pc' # "sleep")
                => (pc' = "run_top" /\ slept' = reconnect_delay_s)]_vars
    /\ (running /\ pc = "sleep" /\ conns < MaxConn) ~> (pc = "recv" \/ ~running)

\* After a wait of the fixed delay the daemon reads from its second
\* connection.
C12_Witness ==
    /\ running /\ pc = "recv" /\ socket = "open"
    /\ conns = 2
    /\ slept = reconnect_delay_s

\* -------------------------------------------------------------------- C13

\* C13: once stop() has been called while run() executes, run() returns,
\* whatever the upstream does, and the socket is None when it has.
C13_StopEndsRun ==
    (~running /\ pc \in {"run_top", "recv", "blocked", "sleep"})
        ~> (pc = "done" /\ socket = "None")

\* -------------------------------------------------------------------- C14

\* C14: when stop() has completed, no process that launch_editor started is
\* still running without having been asked to terminate, whatever launches,
\* re-launches, attaches and session stops came before.
C14_StopTerminatesLaunched ==
    [][Stop => \A p \in DOMAIN procs' : procs'[p] # "running"]_vars

\* -------------------------------------------------------------------- C15

C16_RoutingKeepsSessions ==
    [][/\ (pc' # pc \/ stream' # stream \/ conns' # conns)
             => DOMAIN user_sessions' = DOMAIN user_sessions
       /\ (DOMAIN user_sessions \ DOMAIN user_sessions' # {})
             => \E u \in UserIds : StopSession(u)
       /\ (DOMAIN user_sessions' \ DOMAIN user_sessions # {})
             => \E u \in UserIds :
                   LaunchEditor(u) \/ \E h \in Hwnds : AttachToWindow(u, h)]_vars

\* On the second connection an event was routed to a session whose process
\* had exited: the session is still registered, without a handle.
C16_Witness ==
    /\ conns = 2
    /\ WasRouted /\ last.had /\ last.dead
    /\ last.user \in DOMAIN user_sessions
    /\ user_sessions[last.user].hwnd = NoHwnd

\* -------------------------------------------------------------------- C17

\* route_event has made its mapping lookup (and not begun another call).
LookedUp == route.pc \in {"session", "idle"} /\ route.event # NoEvent

\* C17: a mapping lookup made when add_device_mapping(d, u) has returned
\* (and no later request has been taken) yields u for d, whatever d was
\* mapped to before; one made when remove_device_mapping(d) has returned
\* yields none; and a step that changes what a device is mapped to is the
\* write of an add (or of a configuration update) that names the device and
\* the new user, so a lookup never yields a user the device was not mapped to.
C17_MappingVisibleAtOnce ==
    /\ [](LookedUp =>
            /\ route.after.op = "add" => route.user_id = route.after.user_id
            /\ route.after.op = "remove" => route.user_id = NoUser)
    /\ [][/\ \A d \in DOMAIN device_mappings' :
                (d \notin DOMAIN device_mappings \/ device_mappings'[d] # device_mappings[d])
                   => /\ http.op \in {"add", "config"}
                      /\ http.device_id = d
                      /\ http.user_id = device_mappings'[d]
          /\ route'.pc = "session" /\ route.pc = "lookup"
                => route'.user_id = device_mappings[route.event.device_id]]_vars

\* add_device_mapping('dev-1', 'bob') has returned, replacing alice, and the
\* lookup made then yields bob, while dev-2 stays mapped to alice.
C17_Witness ==
    /\ route.pc = "session"
    /\ route.event.device_id = "dev-1"
    /\ route.after.op = "add" /\ route.after.user_id = "bob"
    /\ route.user_id = "bob"
    /\ "dev-2" \in DOMAIN device_mappings /\ device_mappings["dev-2"] = "alice"

\* -------------------------------------------------------------------- C18

\* The event loop has ended on the end of the data.
EndedOnEOF == stream # <<>> /\ stream[Len(stream)] = EOF

\* C18: when the event loop has ended on the end of the data, the connection
\* is torn down (self.socket is None, so /status says connected: false)
\* before and during the reconnect wait.
C18_TornDownBeforeWait ==
    (pc = "sleep" /\ EndedOnEOF) => socket = "None"

\* -------------------------------------------------------------------- C19

\* The data received on the current connection (the stream without the mark
\* of its end).
Received == SelectSeq(stream, LAMBDA x : x # EOF)

\* C19: the line buffer holds data of the current connection only (it is a
\* tail of what this connection delivered), and the events routed on it are
\* the first of the valid complete lines this connection delivered: whatever
\* incomplete line the connection before had left takes no part in them.
C19_BufferOfOneConnection ==
    /\ \E k \in 0..Len(Received) : buffer = SubSeq(Received, k + 1, Len(Received))
    /\ LET valid == ValidEvents(stream, <<>>)
       IN  /\ Len(routed) <= Len(valid)
           /\ routed = SubSeq(valid, 1, Len(routed))

\* The connection before ended with an incomplete line in the buffer; the
\* second connection's data begins with a newline, and no event was routed
\* for it.
C19_Witness ==
    /\ conns = 2 /\ pc = "recv"
    /\ discarded
    /\ stream # <<>> /\ stream[1] = NL
    /\ routed = <<>> /\ buffer = <<>>

\* -------------------------------------------------------------------- C20

\* C20: an event whose type is neither 'keyboard' nor 'mouse' makes no
\* injection call, whatever the mapping table and the sessions are, and
\* route_event returns as for any other event (dropped for one of the four
\* reasons, or discarded once the window is resolved); the foreground window
\* stays.
C20_UnknownTypeDiscarded ==
    (WasRouted /\ last.event.type \notin {"keyboard", "mouse"}) =>
        /\ last.calls = <<>>
        /\ Foreground(windows) = last.fg
        /\ last.outcome \in {"DroppedUnmappedDevice", "DroppedNoSession",
                             "DroppedProcessDead", "DroppedWindowUnresolvable",
                             "DiscardedUnknownType"}
        /\ ResolvedSession => last.outcome = "DiscardedUnknownType"

\* An event of type 'wheel' reached a session with a live window and was
\* discarded there.
C20_Witness ==
    /\ WasRouted /\ last.event.type = "wheel"
    /\ HadLiveHandle
    /\ last.outcome = "DiscardedUnknownType"
    /\ last.calls = <<>>

\* -------------------------------------------------------------------- C21

\* C21: an event whose device is mapped to a user that has no session in the
\* registry is dropped as DroppedNoSession: route_event makes no injection
\* call, resolves no window, and leaves the registry as it was.
C21_NoSessionDropped ==
    (WasRouted /\ last.mapped /\ last.user # NoUser /\ ~last.had) =>
        /\ last.outcome = "DroppedNoSession"
        /\ last.calls = <<>>
        /\ last.refreshes = 0
        /\ user_sessions = last.before

\* The event of a device mapped to a user without a session was dropped
\* while another user's session had the handle of an existing window.
C21_Witness ==
    /\ WasRouted /\ last.mapped /\ last.user # NoUser /\ ~last.had
    /\ last.outcome = "DroppedNoSession"
    /\ \E v \in DOMAIN user_sessions :
          v # last.user /\ IsWindow(windows, user_sessions[v].hwnd)

\* -------------------------------------------------------------------- C22

\* C22: routing is single-pass and ordered: the events routed on a connection
\* are those of the complete lines it has delivered that hold an event, each
\* once, in the order of the stream (stated for data of one-byte characters).
C22_EachLineRoutedOnceInOrder ==
    (\A i \in 1..Len(stream) : stream[i] \notin {Lead, Trail}) =>
        routed = ValidEvents(stream, <<>>)

\* -------------------------------------------------------------------- C25

\* What event_loop routes when one recv() returns all of data: the routed
\* events do not depend on the sessions and windows the routing works on.
RoutedInOneChunk(data) ==
    IF ~Utf8Decodes(data) THEN <<>>
    ELSE ProcessLines([buffer |-> data, sessions |-> user_sessions,
                       windows |-> windows, routed |-> <<>>,
                       last |-> NoRoute, raised |-> FALSE],
                      device_mappings, procs).routed

\* C25: the events routed from a connection depend on the data only, not on
\* the chunks recv() returned it in: when event_loop has ended, it has routed
\* what it routes when the whole data of the connection comes in one chunk.
C25_ChunkingIrrelevant ==
    pc = "sleep" => routed = RoutedInOneChunk(Received \o upstream)

\* -------------------------------------------------------------------- C23

\* C23: every session in the registry is either launched (it has a process
\* handle, and its pid is that process's id, not 0) or attached (no process
\* handle, pid 0, a window handle): none has a process handle with pid 0 or a
\* pid without a process handle.
C23_LaunchedOrAttached ==
    \A u \in DOMAIN user_sessions :
        LET session == user_sessions[u]
        IN  \/ /\ session.process # NoProcess
               /\ session.pid = session.process
               /\ session.pid # NoPid
            \/ /\ session.process = NoProcess
               /\ session.pid = NoPid
               /\ session.hwnd # NoHwnd

\* A launched session whose process has exited and whose handle routing has
\* cleared stands next to an attached session whose window is gone.
C23_Witness ==
    \E u, v \in DOMAIN user_sessions :
        /\ user_sessions[u].process # NoProcess
        /\ HasExited(procs, user_sessions[u].process)
        /\ user_sessions[u].hwnd = NoHwnd
        /\ user_sessions[v].process = NoProcess
        /\ ~IsWindow(windows, user_sessions[v].hwnd)

\* -------------------------------------------------------------------- C24

\* C24: when the configuration file is missing or cannot be loaded, the
\* construction of the router ends (it does not fail) with the built-in
\* default configuration (upstream 127.0.0.1:9999, reconnect delay 5 s) and
\* an empty device mapping table.
C24_DefaultsWhenUnloadable ==
    [][(pc = "new" /\ disk' = disk /\ ~(config_file.exists /\ config_file.json = "object")) =>
          /\ pc' = "init"
          /\ {"raw_input_service", "settings", "device_mappings"} \subseteq DOMAIN config'
          /\ config'.raw_input_service = [host |-> "127.0.0.1", port |-> 9999]
          /\ ReconnectDelayOf(config') = reconnect_delay_s
          /\ config'.settings.reconnect_delay_s = reconnect_delay_s
          /\ config'.device_mappings = EmptyDict
          /\ device_mappings' = EmptyDict]_vars

\* The router was constructed with no configuration file, on a disk that
\* took no file: it has the default configuration and an empty table.
C24_Witness ==
    /\ pc = "init"
    /\ config_file = NoFile
    /\ config = save_config(DefaultConfig, EmptyDict)
    /\ device_mappings = EmptyDict

\* -------------------------------------------------------------------- C30

\* C30: after every control-plane mapping operation (add_device_mapping,
\* remove_device_mapping, POST /config) the mapping table in the
\* configuration, which is what gets written to the file, is the live
\* routing table, and the file holds that configuration when the write
\* went through; remove_device_mapping of a device that is not mapped changes
\* neither table and saves nothing.
C30_SavedTableIsLiveTable ==
    [][/\ (pc = "init" /\ disk' = disk) =>
             /\ "device_mappings" \in DOMAIN config'
             /\ config'.device_mappings = device_mappings'
             /\ disk = "ok" => config_file' = FileOf(config')
       /\ \A d \in LockDeviceIds :
             (d \notin DOMAIN device_mappings /\ RemoveDeviceMapping(d)) =>
                 UNCHANGED <<device_mappings, config, config_file>>]_vars

\* Both devices are mapped, which no file the router started from had, and
\* the configuration and the file hold the live table.
C30_Witness ==
    /\ pc = "init"
    /\ DOMAIN device_mappings = LockDeviceIds
    /\ config.device_mappings = device_mappings
    /\ config_file = FileOf(config)

\* -------------------------------------------------------------------- C26

\* C26: a stop request is never lost: once stop() has been called, also before
\* run() was entered, run() opens no connection any more.
C26_StopNeverLost ==
    [][stop_requested => conns' = conns]_vars

\* -------------------------------------------------------------------- C27

\* The control-plane thread has answered POST /stop for a user with success
\* and has taken no request since.
StopAnswered == http.op = "stop" /\ http.pc = "done"

\* C27: once POST /stop for a user has returned success, the user's session
\* is absent and, until a later request creates a new one, route_event makes
\* no injection call for an event of a device mapped to that user, however
\* the request and the receive loop interleave; POST /stop for a user with no
\* session is refused and changes nothing.
C27_StoppedSessionGetsNoInput ==
    [][/\ StopAnswered => http.user_id \notin DOMAIN user_sessions
       /\ (StopAnswered /\ http' = http /\ route.pc = "inject"
              /\ route.user_id = http.user_id) =>
             route'.calls = <<>>
       /\ (http.op = "stop" /\ http.pc = "terminate" /\ http' # http
              /\ http.user_id \notin DOMAIN user_sessions) =>
             /\ http'.pc = "refused"
             /\ UNCHANGED <<routerVars, osVars>>]_vars

\* -------------------------------------------------------------------- C28

\* C28: a failed session creation leaves the session registry as it was:
\* attach_to_window on a handle that is no window is refused, launch_editor
\* for a user the configuration does not have, or whose process does not
\* start, is refused, and no step that ends a request in a refusal adds,
\* replaces or changes a session.
C28_FailedCreationKeepsRegistry ==
    [][/\ (http.op = "attach" /\ http.pc = "register" /\ http' # http
              /\ ~IsWindow(windows, http.hwnd)) =>
             (http'.pc = "refused" /\ user_sessions' = user_sessions)
       /\ (http.op = "launch" /\ http.pc = "popen" /\ http' # http
              /\ (http.user_id \notin UsersOf(config) \/ procs' = procs)) =>
             (http'.pc = "refused" /\ user_sessions' = user_sessions /\ procs' = procs)
       /\ (http.pc # "refused" /\ http'.pc = "refused") =>
             user_sessions' = user_sessions]_vars

\* An attach to a handle that is no window was refused for a user who has a
\* session: the session is still the one the user had.
C28_Witness ==
    /\ http.pc = "refused"
    /\ http.op = "attach"
    /\ ~IsWindow(windows, http.hwnd)
    /\ http.user_id \in DOMAIN user_sessions
    /\ user_sessions[http.user_id].hwnd # http.hwnd

\* -------------------------------------------------------------------- C29

\* The users whose session owns a process that has exited.
DeadUsers ==
    {u \in DOMAIN user_sessions :
        user_sessions[u].process # NoProcess /\ HasExited(procs, user_sessions[u].process)}

\* C29: once a session's own process has exited, every event for that user
\* is dropped: route_event makes no injection call, attempts no window
\* resolution and leaves the handle absent; an exited process stays exited,
\* and the handle, once absent, stays absent for as long as the session is
\* not replaced.
C29_DeadSessionStaysDead ==
    /\ [](\A u \in DeadUsers : \A e \in Events :
            LookupUser(device_mappings, e.device_id) = u =>
                LET r == route_event(e, device_mappings, user_sessions, windows, procs)
                IN  /\ r.outcome = "DroppedProcessDead"
                    /\ r.calls = <<>>
                    /\ r.refreshes = 0
                    /\ r.sessions[u].hwnd = NoHwnd)
    /\ [](WasRouted /\ last.had /\ last.dead =>
            /\ last.calls = <<>> /\ last.refreshes = 0
            /\ user_sessions[last.user].hwnd = NoHwnd)
    /\ [][\A u \in DeadUsers :
            (u \in DOMAIN user_sessions'
               /\ user_sessions'[u].process = user_sessions[u].process) =>
                /\ HasExited(procs', user_sessions'[u].process)
                /\ user_sessions[u].hwnd = NoHwnd => user_sessions'[u].hwnd = NoHwnd]_vars

\* A later event for a session whose process had exited: its handle was
\* absent already, the event was dropped, and another window is open.
C29_Witness ==
    /\ WasRouted /\ last.had /\ last.dead
    /\ LastPre.hwnd = NoHwnd
    /\ last.calls = <<>>
    /\ windows # <<>>

====
